---- MODULE Spec2Model ----
(***************************************************************************)
(* A model of thestral, a SOCKS5 relay: the SOCKS upstream factory          *)
(* (src/src/socks_upstream.cc), the direct upstream factory (same file,     *)
(* second half), and the accept loops of the TCP and TLS transport          *)
(* factories (src/src/tcp_transport.cc, src/unnamed/part_004).              *)
(*                                                                         *)
(* Three specifications share the variables:                                *)
(*   Spec        requests on one SocksTcpUpstreamFactory                    *)
(*   SpecAccept  one listener of a TCP or TLS transport factory             *)
(*   SpecDirect  requests on one DirectTcpUpstreamFactory                   *)
(***************************************************************************)
EXTENDS Integers, Sequences, FiniteSets, TLC

\* ------------------------------------------------------------------ bounds
NumReqs == 2
NumClients == 3
MaxAcceptErrors == 1
MaxResults == 2
MaxOwners == 2
MaxCloses == 2
MaxOps == 3
MaxBuilds == 3
MaxStream == 4
MaxTrailing == 1
MaxChunks == 2
MaxMethods == 2

Reqs == 1..NumReqs
Clients == 1..NumClients

\* ------------------------------------------------------- program constants
\* common.h: THESTRAL_DEFINE_ENUM(AddressType, ...)
kIPv4 == 1
kDomainName == 3
kIPv6 == 4
\* common.h FromAsioEndpoint: static_cast<AddressType>(0xff)
kInvalidAddressType == 255

\* ResponseCode of the SOCKS protocol (the wire values)
ResponseCode ==
  [kSuccess |-> 0, kGeneralFailure |-> 1, kConnectionRefused |-> 5,
   kAddressTypeNotSupported |-> 8]

\* ------------------------------------------------------------ error codes
\* boost::system::error_code: a category and a value; it converts to true
\* iff the value is not 0.  ec_type() is the system category with value 0.
NoError == [cat |-> "system", val |-> 0]
IsError(ec) == ec.val # 0
EofError == [cat |-> "asio.misc", val |-> 2]
ConnRefused == [cat |-> "system", val |-> 111]
HostNotFound == [cat |-> "asio.netdb", val |-> 1]
TryAgain == [cat |-> "netdb", val |-> 2]
HandshakeFailed == [cat |-> "asio.ssl", val |-> 1]
BadDescriptor == [cat |-> "system", val |-> 9]

\* error::make_error_code(ResponseCode): the SOCKS category with the
\* response code as its value
make_error_code(code) == [cat |-> "socks", val |-> code]

\* -------------------------------------------------------------- addresses
Address(t, h, p) == [type |-> t, host |-> h, port |-> p]
\* the bound addresses an upstream reports
Addrs ==
  { Address(kIPv4, <<10, 0, 0, 1>>, 80),
    Address(kDomainName, <<"h">>, 443) }
\* the endpoint argument of request r: every request asks for its own target
TargetOf(r) == Address(kDomainName, <<"target", r>>, 80)
\* local_endpoint() of the socket a request's transport owns
SocketLocalAddress(r) == Address(kIPv4, <<127, 0, 0, 1>>, 50000 + r)

\* ------------------------------------------------------------- transports
NoAddress == Address(0, <<>>, 0)
NullTransport == [kind |-> "null", inner |-> 0, bound |-> NoAddress]
\* a transport of the underlying factory, owned by request r
PlainTransport(r) == [kind |-> "plain", inner |-> r, bound |-> NoAddress]
\* impl::SocksTransportWrapper(transport, bound address)
SocksTransportWrapper(t, addr) == [kind |-> "wrapped", inner |-> t.inner, bound |-> addr]
\* GetLocalAddress() of a transport handed to a request callback
GetLocalAddress(t) ==
  IF t.kind = "wrapped" THEN t.bound ELSE SocketLocalAddress(t.inner)

VARIABLES
  \* ---- SocksTcpUpstreamFactory
  factoryKind,                  \* "tcp" or "ssl": the transport_factory_
  is_upstream_endpoint_init_,
  upstream_endpoint_,
  upstream_endpoint_init_mtx_,  \* the request holding the mutex, 0 when free
  pc,                           \* where each request is
  target,                       \* the endpoint argument of each request
  iter,                         \* resolver iterator of each request
  sock,                         \* the transport each request created
  selected,                     \* method of the AuthMethodSelectPacket read
  hdr,                          \* response code of the ResponseHeader read
  body,                         \* bound Address of the ResponsePacket read
  io,                           \* reads and writes issued on the transport
  cb,                           \* invocations of the request callback
  resolutions,                  \* resolver.resolve calls, in order, with the
                                \* endpoint the successful one remembered
  \* ---- one listener of a TcpTransportFactory (TCP or TLS)
  acceptKind,                   \* "tcp" or "ssl": the factory that listens
  listening,                    \* StartAccept was called
  clients,                      \* what each client has done
  backlog,                      \* connections the OS holds for the acceptor
  rounds,                       \* the DoAccept calls, in order
  acceptErrors,                 \* accepts that completed with an error
  acceptCb,                     \* invocations of the accept callback
  \* ---- DirectTcpUpstreamFactory
  dpc,                          \* where each direct request is
  daddr,                        \* the address argument of each request
  dops,                         \* resolves and connects each request issued
  dcb,                          \* invocations of each request's callback
  \* ---- one transport (TcpTransportImpl or SslTransportImpl)
  tKind,                        \* "tcp" or "ssl"
  socket_,                      \* "open" or "closed": the socket's descriptor
  tls,                          \* state of the TLS stream ssl_sock_
  owners,                       \* shared_ptr owners other than pending handlers
  handlers,                     \* pending async_shutdown handlers
  destroyed,                    \* the transport object was destructed
  closeLog,                     \* the StartClose calls, in order
  closeCb,                      \* invocations of close callbacks
  rwLog,                        \* completed StartRead and StartWrite calls
  escaped,                      \* exceptions that left StartClose
  \* ---- one SslTransportFactoryBuilder
  used_,
  ssl_ctx_,                     \* the builder's TLS context
  built,                        \* what each Build call returned
  \* ---- one packet read from a transport
  stream,                       \* bytes the transport has yet to deliver
  ppc,                          \* where the packet reader is
  reads,                        \* StartRead calls of the reader
  created,                      \* invocations of the create callback
  \* ---- one Address or packet, built, written and read back
  asioEndpoint,                 \* the endpoint given to FromAsioEndpoint
  original,                     \* the packet built
  wire,                         \* bytes written, and bytes yet to be read
  cpc,                          \* where the packet is
  partial,                      \* fields read so far
  decoded,                      \* the invocation of the create callback
  \* ---- one relay
  rsock,                        \* the sockets of D and U
  dirs,                         \* where each direction is
  inflight,                     \* outstanding reads and writes of D and U
  relay,                        \* who closed, and whether the relay is over
  \* ---- one connection of the SOCKS5 server
  spc,                          \* state S0..S5 or closed
  greeting,                     \* the AuthMethodList read
  sreq,                         \* the RequestPacket read
  replies,                      \* packets written to the client
  srv                           \* closes, upstream calls, relay

acceptVars ==
  <<acceptKind, listening, clients, backlog, rounds, acceptErrors, acceptCb>>

directVars == <<dpc, daddr, dops, dcb>>

socksVars ==
  <<factoryKind, is_upstream_endpoint_init_, upstream_endpoint_,
    upstream_endpoint_init_mtx_, pc, target, iter, sock, selected, hdr, body, io, cb,
    resolutions>>

transportVars ==
  <<tKind, socket_, tls, owners, handlers, destroyed, closeLog, closeCb, rwLog,
    escaped>>

builderVars == <<used_, ssl_ctx_, built>>

packetVars == <<stream, ppc, reads, created>>

componentVars == <<transportVars, builderVars, packetVars>>

codecVars == <<asioEndpoint, original, wire, cpc, partial, decoded>>

relayVars == <<rsock, dirs, inflight, relay>>

serverVars == <<spc, greeting, sreq, replies, srv>>

moreVars == <<codecVars, relayVars, serverVars>>

vars == <<socksVars, acceptVars, directVars, componentVars, moreVars>>

NoIter == [results |-> <<>>, pos |-> 0]
\* connects counts the connections opened for the request, no_delay is the
\* TCP_NODELAY option of the socket
NoSock ==
  [state |-> "none", endpoint |-> 0, closeCalls |-> 0, relayed |-> {},
   connects |-> 0, no_delay |-> FALSE]

\* resolver results: non-empty lists of distinct endpoints, each endpoint
\* named by its place in the list (0 is the default-constructed endpoint)
ResultSets == { [i \in 1..n |-> i] : n \in 1..MaxResults }

SocksInit ==
  /\ factoryKind \in {"tcp", "ssl"}
  /\ is_upstream_endpoint_init_ = FALSE
  /\ upstream_endpoint_ = 0
  /\ upstream_endpoint_init_mtx_ = 0
  /\ pc = [r \in Reqs |-> "idle"]
  /\ target = [r \in Reqs |-> NoAddress]
  /\ iter = [r \in Reqs |-> NoIter]
  /\ sock = [r \in Reqs |-> NoSock]
  /\ selected = [r \in Reqs |-> ""]
  /\ hdr = [r \in Reqs |-> 0]
  /\ body = [r \in Reqs |-> NoAddress]
  /\ io = [r \in Reqs |-> <<>>]
  /\ cb = [r \in Reqs |-> <<>>]
  /\ resolutions = <<>>

\* ------------------------------------------------------------- helpers
\* the request callback is invoked with (ec, transport); held records
\* whether the calling request holds upstream_endpoint_init_mtx_
Callback(r, ec, t) ==
  cb' = [cb EXCEPT ![r] = Append(@, [ec |-> ec, transport |-> t,
                                     held |-> (upstream_endpoint_init_mtx_ = r)])]

\* transport->StartClose(): the TCP transport shuts down and closes at once,
\* the TLS transport starts its asynchronous TLS shutdown; either way nothing
\* more is done with the transport here
StartClose(s) == [s EXCEPT !.state = "closed", !.closeCalls = @ + 1]

\* an asynchronous read or write is issued on the transport of request r
Issue(r, op, pkt) == Append(io[r], [op |-> op, pkt |-> pkt, res |-> "pending"])
\* the outstanding operation completes with ec
Res(ec) == IF IsError(ec) THEN "error" ELSE "ok"
Complete(log, ec) == [log EXCEPT ![Len(log)].res = Res(ec)]

AuthMethodList == [kind |-> "AuthMethodList", methods |-> <<"kNoAuth">>]
RequestPacket(a) == [kind |-> "RequestPacket", command |-> "kConnect", body |-> a]
ReadOf(k) == [kind |-> k]

\* the auth methods an upstream may select
AuthMethods == {"kNoAuth", "kNoAcceptable"}
\* the response codes an upstream may answer with
ReplyCodes ==
  {ResponseCode.kSuccess, ResponseCode.kGeneralFailure,
   ResponseCode.kConnectionRefused}

\* ------------------------------------------------ TryConnect, both factories
\* boost::asio::connect(socket, begin, ec) tries the results from begin on;
\* k is the index of the first result that accepts the connection
\* (Len + 1: none does).  It returns the iterator on that result, or the end
\* iterator and an error.
AsioConnect(it, k) ==
  [iter |-> [it EXCEPT !.pos = k],
   ec |-> IF k > Len(it.results) THEN ConnRefused ELSE NoError]

\* TcpTransportFactoryImpl::TryConnect: the iterator boost::asio::connect
\* returns is dropped, so iter stays where it was; the transport is returned
\* whatever the error code, and no option is set on its socket
TcpTryConnect(it, k, hs) ==
  [iter |-> it, ec |-> AsioConnect(it, k).ec, transport |-> TRUE, no_delay |-> FALSE]

\* SslTransportFactoryImpl::TryConnect: iter = boost::asio::connect(...),
\* then set_option(no_delay) and the client handshake (hs: it succeeds);
\* null on any error
SslTryConnect(it, k, hs) ==
  LET c == AsioConnect(it, k)
      ec == IF IsError(c.ec) THEN c.ec
            ELSE IF hs THEN NoError ELSE HandshakeFailed
  IN [iter |-> c.iter, ec |-> ec, transport |-> ~IsError(ec),
      no_delay |-> ~IsError(c.ec)]

TryConnect(it, k, hs) ==
  IF factoryKind = "tcp" THEN TcpTryConnect(it, k, hs) ELSE SslTryConnect(it, k, hs)

\* ---------------------------------- SocksTcpUpstreamFactory::StartRequest
\* the first, unlocked read of the flag.  The read races with the locked
\* write of TryConnectStep on another thread: it may still see false after
\* the flag was set.
FirstCheck == IF is_upstream_endpoint_init_ THEN {TRUE, FALSE} ELSE {FALSE}

StartRequest(r) ==
  /\ pc[r] = "idle"
  /\ target' = [target EXCEPT ![r] = TargetOf(r)]
  /\ \E seen \in FirstCheck :
       pc' = [pc EXCEPT ![r] = IF seen THEN "connect" ELSE "lock"]
  /\ UNCHANGED <<moreVars, componentVars, acceptVars, directVars, factoryKind, is_upstream_endpoint_init_, upstream_endpoint_,
                 upstream_endpoint_init_mtx_, iter, sock, selected, hdr, body, io, cb,
                 resolutions>>

\* a StartRequest without the second check: whoever gets the mutex resolves
SecondCheck_Missing == FALSE

\* lock_guard, then the second check of the flag under the mutex
SecondCheck == is_upstream_endpoint_init_

AcquireLock(r) ==
  /\ pc[r] = "lock"
  /\ upstream_endpoint_init_mtx_ = 0
  /\ IF SecondCheck
       THEN /\ pc' = [pc EXCEPT ![r] = "connect"]
            /\ UNCHANGED upstream_endpoint_init_mtx_
       ELSE /\ pc' = [pc EXCEPT ![r] = "resolve"]
            /\ upstream_endpoint_init_mtx_' = r
  /\ UNCHANGED <<moreVars, componentVars, acceptVars, directVars, factoryKind, is_upstream_endpoint_init_, upstream_endpoint_,
                 target, iter, sock, selected, hdr, body, io, cb, resolutions>>

\* resolver.resolve(query, ec), synchronous, under the mutex
Resolve(r) ==
  /\ pc[r] = "resolve"
  /\ \/ /\ resolutions' = Append(resolutions,
                                [req |-> r, outcome |-> "resolve_error", endpoint |-> 0])
        /\ Callback(r, HostNotFound, NullTransport)
        /\ upstream_endpoint_init_mtx_' = 0
        /\ pc' = [pc EXCEPT ![r] = "done"]
        /\ UNCHANGED iter
     \/ /\ resolutions' = Append(resolutions,
                                [req |-> r, outcome |-> "resolved", endpoint |-> 0])
        /\ \E res \in ResultSets :
             iter' = [iter EXCEPT ![r] = [results |-> res, pos |-> 1]]
        /\ pc' = [pc EXCEPT ![r] = "tryconnect"]
        /\ UNCHANGED <<cb, upstream_endpoint_init_mtx_>>
  /\ UNCHANGED <<moreVars, componentVars, acceptVars, directVars, factoryKind, is_upstream_endpoint_init_, upstream_endpoint_,
                 target, sock, selected, hdr, body, io>>

\* transport_factory_->TryConnect(iter, ec), then upstream_endpoint_ = *iter,
\* the flag, the end of the lock's scope and SendAuthRequest
TryConnectStep(r) ==
  /\ pc[r] = "tryconnect"
  /\ \E k \in 1..(Len(iter[r].results) + 1), hs \in BOOLEAN :
       LET t == TryConnect(iter[r], k, hs) IN
       \* iter is a local of StartRequest: it is gone when the step ends
       /\ iter' = [iter EXCEPT ![r] = NoIter]
       /\ upstream_endpoint_init_mtx_' = 0
       /\ IF IsError(t.ec)
            THEN /\ Callback(r, t.ec, NullTransport)
                 /\ resolutions' = [resolutions EXCEPT ![Len(resolutions)].outcome = "connect_error"]
                 /\ pc' = [pc EXCEPT ![r] = "done"]
                 /\ UNCHANGED <<is_upstream_endpoint_init_, upstream_endpoint_,
                                sock, io>>
            ELSE /\ upstream_endpoint_' = t.iter.results[t.iter.pos]
                 /\ is_upstream_endpoint_init_' = TRUE
                 /\ resolutions' =
                      [resolutions EXCEPT ![Len(resolutions)].outcome = "initialised",
                                          ![Len(resolutions)].endpoint =
                                            t.iter.results[t.iter.pos]]
                 /\ sock' = [sock EXCEPT ![r] =
                      [state |-> "open", endpoint |-> iter[r].results[k],
                       closeCalls |-> 0, relayed |-> {},
                       connects |-> sock[r].connects + 1, no_delay |-> t.no_delay]]
                 \* SendAuthRequest
                 /\ io' = [io EXCEPT ![r] = Issue(r, "write", AuthMethodList)]
                 /\ pc' = [pc EXCEPT ![r] = "w_auth"]
                 /\ UNCHANGED cb
  /\ UNCHANGED <<moreVars, componentVars, acceptVars, directVars, factoryKind, target, selected, hdr, body>>

\* a StartConnect that connects to a default-constructed endpoint
StartConnect_DefaultEndpoint(r) ==
  /\ pc[r] = "connect"
  /\ sock' = [sock EXCEPT ![r] =
       [state |-> "connecting", endpoint |-> 0,
        closeCalls |-> 0, relayed |-> {}, connects |-> sock[r].connects + 1,
        no_delay |-> FALSE]]
  /\ pc' = [pc EXCEPT ![r] = "connecting"]
  /\ UNCHANGED <<moreVars, componentVars, acceptVars, directVars, factoryKind, is_upstream_endpoint_init_, upstream_endpoint_,
                 upstream_endpoint_init_mtx_, target, iter, selected, hdr, body, io, cb,
                 resolutions>>

\* transport_factory_->StartConnect(upstream_endpoint_, ...): a new transport
\* and an async_connect to the remembered endpoint
StartConnect(r) ==
  /\ pc[r] = "connect"
  /\ sock' = [sock EXCEPT ![r] =
       [state |-> "connecting", endpoint |-> upstream_endpoint_,
        closeCalls |-> 0, relayed |-> {}, connects |-> sock[r].connects + 1,
        no_delay |-> FALSE]]
  /\ pc' = [pc EXCEPT ![r] = "connecting"]
  /\ UNCHANGED <<moreVars, componentVars, acceptVars, directVars, factoryKind, is_upstream_endpoint_init_, upstream_endpoint_,
                 upstream_endpoint_init_mtx_, target, iter, selected, hdr, body, io, cb,
                 resolutions>>

\* the lambda StartRequest hands to StartConnect
OnConnected(r, ec) ==
  IF IsError(ec)
    THEN /\ Callback(r, ec, NullTransport)
         /\ UNCHANGED io
    ELSE /\ io' = [io EXCEPT ![r] = Issue(r, "write", AuthMethodList)]
         /\ UNCHANGED cb

\* TcpTransportFactoryImpl::StartConnect, completion of async_connect
TcpConnectDone(r) ==
  /\ factoryKind = "tcp"
  /\ pc[r] = "connecting"
  /\ \E ec \in {NoError, ConnRefused} :
       /\ OnConnected(r, ec)
       /\ IF IsError(ec)
            THEN /\ sock' = [sock EXCEPT ![r] = StartClose(@)]
                 /\ pc' = [pc EXCEPT ![r] = "done"]
            ELSE /\ sock' = [sock EXCEPT ![r].state = "open",
                                         ![r].no_delay = TRUE]
                 /\ pc' = [pc EXCEPT ![r] = "w_auth"]
  /\ UNCHANGED <<moreVars, componentVars, acceptVars, directVars, factoryKind, is_upstream_endpoint_init_, upstream_endpoint_,
                 upstream_endpoint_init_mtx_, target, iter, selected, hdr, body, resolutions>>

\* SslTransportFactoryImpl::StartConnect, completion of async_connect: on an
\* error the transport is closed and the callback invoked, and in both cases
\* no_delay is set and the client handshake is started
SslConnectDone(r) ==
  /\ factoryKind = "ssl"
  /\ pc[r] = "connecting"
  /\ \E ec \in {NoError, ConnRefused} :
       IF IsError(ec)
         THEN /\ sock' = [sock EXCEPT ![r] = [StartClose(@) EXCEPT !.no_delay = TRUE]]
              /\ OnConnected(r, ec)
         ELSE /\ sock' = [sock EXCEPT ![r].state = "connected",
                                      ![r].no_delay = TRUE]
              /\ UNCHANGED <<cb, io>>
  /\ pc' = [pc EXCEPT ![r] = "handshaking"]
  /\ UNCHANGED <<moreVars, componentVars, acceptVars, directVars, factoryKind, is_upstream_endpoint_init_, upstream_endpoint_,
                 upstream_endpoint_init_mtx_, target, iter, selected, hdr, body, resolutions>>

\* SslTransportFactoryImpl::StartConnect, completion of async_handshake; a
\* handshake on a socket that never connected fails
SslHandshakeDone(r) ==
  /\ factoryKind = "ssl"
  /\ pc[r] = "handshaking"
  /\ \E ec \in IF sock[r].state = "connected"
                 THEN {NoError, HandshakeFailed} ELSE {HandshakeFailed} :
       /\ OnConnected(r, ec)
       /\ IF IsError(ec)
            THEN /\ sock' = [sock EXCEPT ![r] = StartClose(@)]
                 /\ pc' = [pc EXCEPT ![r] = "done"]
            ELSE /\ sock' = [sock EXCEPT ![r].state = "open"]
                 /\ pc' = [pc EXCEPT ![r] = "w_auth"]
  /\ UNCHANGED <<moreVars, componentVars, acceptVars, directVars, factoryKind, is_upstream_endpoint_init_, upstream_endpoint_,
                 upstream_endpoint_init_mtx_, target, iter, selected, hdr, body, resolutions>>

\* ------------------------------- SocksTcpUpstreamFactory::SendAuthRequest
\* a failing step: transport->StartClose(); callback(ec, nullptr)
Fail(r, ec) ==
  /\ sock' = [sock EXCEPT ![r] = StartClose(@)]
  /\ Callback(r, ec, NullTransport)
  /\ pc' = [pc EXCEPT ![r] = "done"]

\* the write of the AuthMethodList completes; on success the read of the
\* AuthMethodSelectPacket is started
\* a write callback that does not look at its error code
AuthWriteFailed_Ignored(ec) == FALSE

\* the test of the write callback: if (ec)
AuthWriteFailed(ec) == IsError(ec)

OnAuthWritten(r) ==
  /\ pc[r] = "w_auth"
  /\ \E ec \in {NoError, EofError} :
       IF AuthWriteFailed(ec)
         THEN /\ io' = [io EXCEPT ![r] = Complete(@, ec)]
              /\ Fail(r, ec)
         ELSE /\ io' = [io EXCEPT ![r] =
                   Append(Complete(@, ec),
                          [op |-> "read", pkt |-> ReadOf("AuthMethodSelect"),
                           res |-> "pending"])]
              /\ pc' = [pc EXCEPT ![r] = "r_select"]
              /\ UNCHANGED <<sock, cb>>
  /\ UNCHANGED <<moreVars, componentVars, acceptVars, directVars, factoryKind, is_upstream_endpoint_init_, upstream_endpoint_,
                 upstream_endpoint_init_mtx_, target, iter, selected, hdr, body, resolutions>>

\* the test of the AuthMethodSelectPacket callback
AuthRejected(ec, method) == IsError(ec) \/ method # "kNoAuth"
\* the error code the request callback gets when the test fails
AuthFailureCode(ec, method) == ec

\* the read of the AuthMethodSelectPacket completes; on success
\* SendSocksRequest writes the RequestPacket
OnAuthSelectRead(r) ==
  /\ pc[r] = "r_select"
  /\ \E ec \in {NoError, EofError}, method \in AuthMethods :
       \* a failed read delivers a default-constructed packet
       /\ IsError(ec) => method = "kNoAuth"
       /\ selected' = [selected EXCEPT ![r] = IF IsError(ec) THEN @ ELSE method]
       /\ IF AuthRejected(ec, method)
            THEN /\ io' = [io EXCEPT ![r] = Complete(@, ec)]
                 /\ Fail(r, AuthFailureCode(ec, method))
            ELSE /\ io' = [io EXCEPT ![r] =
                      Append(Complete(@, ec),
                             [op |-> "write", pkt |-> RequestPacket(target[r]),
                              res |-> "pending"])]
                 /\ pc' = [pc EXCEPT ![r] = "w_request"]
                 /\ UNCHANGED <<sock, cb>>
  /\ UNCHANGED <<moreVars, componentVars, acceptVars, directVars, factoryKind, is_upstream_endpoint_init_, upstream_endpoint_,
                 upstream_endpoint_init_mtx_, target, iter, hdr, body, resolutions>>

\* ------------------------------ SocksTcpUpstreamFactory::SendSocksRequest
\* the write of the RequestPacket completes; on success
\* ResponsePacket::StartCreateFrom starts the read of the ResponseHeader
OnRequestWritten(r) ==
  /\ pc[r] = "w_request"
  /\ \E ec \in {NoError, EofError} :
       IF IsError(ec)
         THEN /\ io' = [io EXCEPT ![r] = Complete(@, ec)]
              /\ Fail(r, ec)
         ELSE /\ io' = [io EXCEPT ![r] =
                   Append(Complete(@, ec),
                          [op |-> "read", pkt |-> ReadOf("ResponseHeader"),
                           res |-> "pending"])]
              /\ pc' = [pc EXCEPT ![r] = "r_header"]
              /\ UNCHANGED <<sock, cb>>
  /\ UNCHANGED <<moreVars, componentVars, acceptVars, directVars, factoryKind, is_upstream_endpoint_init_, upstream_endpoint_,
                 upstream_endpoint_init_mtx_, target, iter, selected, hdr, body, resolutions>>

\* PacketWithHeader::StartCreateFrom, the header callback: an error goes to
\* the packet callback with an empty packet, otherwise the body (the bound
\* Address) is read
OnResponseHeaderRead(r) ==
  /\ pc[r] = "r_header"
  /\ \E ec \in {NoError, EofError}, code \in ReplyCodes :
       IF IsError(ec)
         THEN /\ code = ResponseCode.kSuccess
              /\ io' = [io EXCEPT ![r] = Complete(@, ec)]
              /\ Fail(r, ec)
              /\ UNCHANGED hdr
         ELSE /\ hdr' = [hdr EXCEPT ![r] = code]
              /\ io' = [io EXCEPT ![r] =
                   Append(Complete(@, ec),
                          [op |-> "read", pkt |-> ReadOf("Address"),
                           res |-> "pending"])]
              /\ pc' = [pc EXCEPT ![r] = "r_body"]
              /\ UNCHANGED <<sock, cb>>
  /\ UNCHANGED <<moreVars, componentVars, acceptVars, directVars, factoryKind, is_upstream_endpoint_init_, upstream_endpoint_,
                 upstream_endpoint_init_mtx_, target, iter, selected, body, resolutions>>

\* a callback that folds every upstream failure into kGeneralFailure
ResponseFailureCode_Remapped(code) == make_error_code(ResponseCode.kGeneralFailure)

\* the error code the request callback gets for a response that is not
\* kSuccess
ResponseFailureCode(code) == make_error_code(code)

\* a callback that hands out the transport to the upstream as it is
ResultTransport_Unwrapped(r, addr) == PlainTransport(r)

\* the transport the request callback gets on success
ResultTransport(r, addr) == SocksTransportWrapper(PlainTransport(r), addr)

\* PacketWithHeader::StartCreateFrom, the body callback, and the
\* ResponsePacket callback of SendSocksRequest
OnResponseBodyRead(r) ==
  /\ pc[r] = "r_body"
  /\ \E ec \in {NoError, EofError}, addr \in Addrs :
       /\ pc' = [pc EXCEPT ![r] = "done"]
       \* the packet keeps the header and the body only when the read succeeded
       /\ body' = [body EXCEPT ![r] = IF IsError(ec) THEN @ ELSE addr]
       /\ IsError(ec) => addr = CHOOSE a \in Addrs : TRUE
       /\ io' = [io EXCEPT ![r] = Complete(@, ec)]
       /\ IF IsError(ec) \/ hdr[r] # ResponseCode.kSuccess
            THEN /\ sock' = [sock EXCEPT ![r] = StartClose(@)]
                 /\ IF IsError(ec)
                      THEN Callback(r, ec, NullTransport)
                      ELSE Callback(r, ResponseFailureCode(hdr[r]), NullTransport)
            ELSE /\ Callback(r, ec, ResultTransport(r, addr))
                 /\ UNCHANGED sock
  /\ UNCHANGED <<moreVars, componentVars, acceptVars, directVars, factoryKind, is_upstream_endpoint_init_, upstream_endpoint_,
                 upstream_endpoint_init_mtx_, target, iter, selected, hdr,
                 resolutions>>

\* ----------------------------------------------- impl::SocksTransportWrapper
\* the holder of the transport a successful request delivered uses it: reads,
\* writes and close go to the wrapped transport
WrapperUse(r) ==
  /\ pc[r] = "done"
  /\ cb[r] # <<>>
  /\ cb[r][Len(cb[r])].transport.kind = "wrapped"
  /\ LET t == cb[r][Len(cb[r])].transport.inner IN
     /\ sock[t].state = "open"
     \* the holder first reads, then writes what it read; it may close at any time
     /\ \E op \in {"close"} \cup (IF sock[t].relayed = {} THEN {"read"} ELSE {"write"}) :
          sock' = [sock EXCEPT ![t] =
                     IF op = "close" THEN StartClose(@)
                     ELSE [@ EXCEPT !.relayed = @ \cup {op}]]
  /\ UNCHANGED <<moreVars, componentVars, acceptVars, directVars, factoryKind, is_upstream_endpoint_init_, upstream_endpoint_,
                 upstream_endpoint_init_mtx_, pc, target, iter, selected, hdr,
                 body, io, cb, resolutions>>

\* =====================================================================
\* The accept loop of TcpTransportFactoryImpl and SslTransportFactoryImpl
\* =====================================================================
\* the listener before StartAccept
AcceptIdle ==
  /\ listening = FALSE
  /\ clients = [c \in Clients |-> "idle"]
  /\ backlog = <<>>
  /\ rounds = <<>>
  /\ acceptErrors = 0
  /\ acceptCb = <<>>

AcceptInit ==
  /\ acceptKind \in {"tcp", "ssl"}
  /\ AcceptIdle

\* DoAccept: a new transport (named by the number of the call) and an
\* async_accept into its socket
DoAccept(rs) ==
  Append(rs, [accept |-> "pending", handshake |-> "none", client |-> 0,
              closeCalls |-> 0])

\* the transport DoAccept number k created
AcceptedTransport(k) == [kind |-> "plain", inner |-> k, bound |-> NoAddress]

\* the accept callback is invoked for round k with (ec, transport) and
\* returns ret: whether to accept more connections
AcceptCallback(k, ec, t, ret) ==
  acceptCb' = Append(acceptCb, [round |-> k, ec |-> ec, transport |-> t, ret |-> ret])

\* StartAccept: a new acceptor on the endpoint, then DoAccept
StartAccept ==
  /\ ~listening
  /\ listening' = TRUE
  /\ rounds' = DoAccept(rounds)
  /\ UNCHANGED <<moreVars, componentVars, socksVars, directVars, acceptKind, clients, backlog,
                 acceptErrors, acceptCb>>

\* a client connects: the OS completes the TCP handshake and queues the
\* connection for the acceptor
ClientConnects(c) ==
  /\ listening
  /\ clients[c] = "idle"
  /\ clients' = [clients EXCEPT ![c] = "queued"]
  /\ backlog' = Append(backlog, c)
  /\ UNCHANGED <<moreVars, componentVars, socksVars, directVars, acceptKind, listening, rounds,
                 acceptErrors, acceptCb>>

\* what an outstanding async_accept may complete with: the first queued
\* connection, or an error of the acceptor
AcceptOutcomes ==
  (IF backlog # <<>> THEN {NoError} ELSE {}) \cup
  (IF acceptErrors < MaxAcceptErrors THEN {BadDescriptor} ELSE {})

\* the effect of an accept completion on the OS side
Accepted(k, ec) ==
  IF IsError(ec)
    THEN /\ acceptErrors' = acceptErrors + 1
         /\ UNCHANGED <<clients, backlog>>
    ELSE /\ clients' = [clients EXCEPT ![Head(backlog)] = "accepted"]
         /\ backlog' = Tail(backlog)
         /\ UNCHANGED acceptErrors

\* a TCP accept lambda that accepts again whatever the callback returned
TcpAcceptDone_IgnoresReturn(k) ==
  /\ acceptKind = "tcp"
  /\ rounds[k].accept = "pending"
  /\ \E ec \in AcceptOutcomes, ret \in BOOLEAN :
       /\ Accepted(k, ec)
       /\ AcceptCallback(k, ec, AcceptedTransport(k), ret)
       /\ rounds' = DoAccept([rounds EXCEPT
                         ![k].accept = Res(ec),
                         ![k].client = IF IsError(ec) THEN 0 ELSE Head(backlog)])
  /\ UNCHANGED <<moreVars, componentVars, socksVars, directVars, acceptKind, listening>>

\* TcpTransportFactoryImpl::DoAccept, the async_accept lambda: the callback
\* gets the error code and the transport, and DoAccept is called again when
\* it returns true
TcpAcceptDone(k) ==
  /\ acceptKind = "tcp"
  /\ rounds[k].accept = "pending"
  /\ \E ec \in AcceptOutcomes, ret \in BOOLEAN :
       /\ Accepted(k, ec)
       /\ AcceptCallback(k, ec, AcceptedTransport(k), ret)
       /\ LET done == [rounds EXCEPT
                         ![k].accept = Res(ec),
                         ![k].client = IF IsError(ec) THEN 0 ELSE Head(backlog)]
          IN rounds' = IF ret THEN DoAccept(done) ELSE done
  /\ UNCHANGED <<moreVars, componentVars, socksVars, directVars, acceptKind, listening>>

\* a TLS accept lambda that hands the connection to the callback as soon as
\* it is accepted, the way the TCP factory does, and then starts the handshake
SslAcceptDone_CallbackFirst(k) ==
  /\ acceptKind = "ssl"
  /\ rounds[k].accept = "pending"
  /\ \E ec \in AcceptOutcomes, ret \in BOOLEAN :
       /\ Accepted(k, ec)
       /\ AcceptCallback(k, ec,
                         IF IsError(ec) THEN NullTransport ELSE AcceptedTransport(k),
                         ret)
       /\ rounds' = IF IsError(ec)
                      THEN [rounds EXCEPT ![k].accept = "error",
                                          ![k].closeCalls = @ + 1]
                      ELSE [rounds EXCEPT ![k].accept = "ok",
                                          ![k].client = Head(backlog),
                                          ![k].handshake = "pending"]
  /\ UNCHANGED <<moreVars, componentVars, socksVars, directVars, acceptKind, listening>>

\* SslTransportFactoryImpl::DoAccept, the async_accept lambda: on an error
\* the transport is closed, the callback gets (ec, nullptr) and accepting
\* stops; otherwise the server handshake is started
SslAcceptDone(k) ==
  /\ acceptKind = "ssl"
  /\ rounds[k].accept = "pending"
  /\ \E ec \in AcceptOutcomes, ret \in BOOLEAN :
       /\ Accepted(k, ec)
       /\ IF IsError(ec)
            THEN /\ AcceptCallback(k, ec, NullTransport, ret)
                 /\ rounds' = [rounds EXCEPT ![k].accept = "error",
                                             ![k].closeCalls = @ + 1]
            ELSE /\ ret = TRUE
                 /\ rounds' = [rounds EXCEPT ![k].accept = "ok",
                                             ![k].client = Head(backlog),
                                             ![k].handshake = "pending"]
                 /\ UNCHANGED acceptCb
  /\ UNCHANGED <<moreVars, componentVars, socksVars, directVars, acceptKind, listening>>

\* SslTransportFactoryImpl::DoAccept, the async_handshake lambda: the
\* callback gets (ec, ec ? nullptr : transport), and DoAccept is called again
\* when it returns true
SslAcceptHandshakeDone(k) ==
  /\ acceptKind = "ssl"
  /\ rounds[k].handshake = "pending"
  /\ \E ec \in {NoError, HandshakeFailed}, ret \in BOOLEAN :
       /\ AcceptCallback(k, ec,
                         IF IsError(ec) THEN NullTransport ELSE AcceptedTransport(k),
                         ret)
       /\ LET done == [rounds EXCEPT
                         ![k].handshake = Res(ec),
                         ![k].closeCalls = IF IsError(ec) THEN @ + 1 ELSE @]
          IN rounds' = IF ret THEN DoAccept(done) ELSE done
  /\ UNCHANGED <<moreVars, componentVars, socksVars, directVars, acceptKind, listening, clients,
                 backlog, acceptErrors>>

\* =====================================================================
\* DirectTcpUpstreamFactory
\* =====================================================================
DirectIdle ==
  /\ dpc = [r \in Reqs |-> "idle"]
  /\ daddr = [r \in Reqs |-> NoAddress]
  /\ dops = [r \in Reqs |-> <<>>]
  /\ dcb = [r \in Reqs |-> <<>>]

DirectInit ==
  /\ DirectIdle

\* the addresses requests are made for: one of each type, and one whose type
\* is none of the three
DirectAddrs ==
  { Address(kIPv4, <<10, 0, 0, 1>>, 80),
    Address(kIPv6, <<0, 0, 0, 0, 0, 0, 0, 0, 0, 0, 0, 0, 0, 0, 0, 1>>, 443),
    Address(kDomainName, <<"h">>, 8080),
    Address(kInvalidAddressType, <<>>, 0) }

\* an endpoint made of the address bytes alone
TcpEndpoint_NoPort(bytes, port) == [addr |-> bytes, port |-> 0]
\* ip::tcp::endpoint(address bytes, port)
TcpEndpoint(bytes, port) == [addr |-> bytes, port |-> port]
\* StartConnect(endpoint, callback) is called: the connect is outstanding
Connect(endpoint) ==
  [op |-> "connect", arg |-> endpoint,
   out |-> [done |-> FALSE, ec |-> NoError, transport |-> NullTransport]]
\* what the resolver may find for a host and a service: a list of endpoints
DirectResults(a) ==
  { <<TcpEndpoint(<<192, 0, 2, 1>>, a.port)>>,
    <<TcpEndpoint(<<192, 0, 2, 2>>, a.port), TcpEndpoint(<<192, 0, 2, 1>>, a.port)>> }

\* the error codes async_resolve may complete with
ResolveErrors == {HostNotFound, TryAgain}

\* a handler that walks the iterator to the last result
FirstResult_Last(res) == res[Len(res)]
\* *iter of the iterator async_resolve hands to its handler: the first result
FirstResult(res) == res[1]

DirectCallback(r, ec, t) ==
  dcb' = [dcb EXCEPT ![r] = Append(@, [ec |-> ec, transport |-> t])]

\* the error code the callback gets for an address of unknown type
UnknownTypeCode == NoError

\* DirectTcpUpstreamFactory::StartRequest: the switch on address.type
DirectStartRequest(r) ==
  /\ dpc[r] = "idle"
  /\ \E a \in DirectAddrs :
       /\ daddr' = [daddr EXCEPT ![r] = a]
       /\ CASE a.type = kDomainName ->
                 /\ dops' = [dops EXCEPT ![r] =
                      Append(@, [op |-> "resolve",
                                 arg |-> [host |-> a.host, port |-> a.port],
                                 out |-> [done |-> FALSE, ec |-> NoError, results |-> <<>>]])]
                 /\ dpc' = [dpc EXCEPT ![r] = "resolving"]
                 /\ UNCHANGED dcb
            [] a.type \in {kIPv4, kIPv6} ->
                 /\ dops' = [dops EXCEPT ![r] =
                      Append(@, Connect(TcpEndpoint(a.host, a.port)))]
                 /\ dpc' = [dpc EXCEPT ![r] = "connecting"]
                 /\ UNCHANGED dcb
            [] OTHER ->
                 /\ DirectCallback(r, UnknownTypeCode, NullTransport)
                 /\ dpc' = [dpc EXCEPT ![r] = "done"]
                 /\ UNCHANGED dops
  /\ UNCHANGED <<moreVars, componentVars, socksVars, acceptVars>>

\* the async_resolve lambda: an error goes to the callback, otherwise
\* StartConnect(*iter, callback) on the first result
DirectResolved(r) ==
  /\ dpc[r] = "resolving"
  /\ \/ \E ec \in ResolveErrors :
          /\ DirectCallback(r, ec, NullTransport)
          /\ dpc' = [dpc EXCEPT ![r] = "done"]
          /\ dops' = [dops EXCEPT ![r][1].out = [done |-> TRUE, ec |-> ec, results |-> <<>>]]
     \/ \E res \in DirectResults(daddr[r]) :
          /\ dops' = [dops EXCEPT ![r] =
               Append([@ EXCEPT ![1].out = [done |-> TRUE, ec |-> NoError, results |-> res]],
                      Connect(FirstResult(res)))]
          /\ dpc' = [dpc EXCEPT ![r] = "connecting"]
          /\ UNCHANGED dcb
  /\ UNCHANGED <<moreVars, componentVars, socksVars, acceptVars, daddr>>

\* TcpTransportFactoryImpl::StartConnect, the async_connect lambda, with the
\* request callback as the connect callback
DirectConnectDone(r) ==
  /\ dpc[r] = "connecting"
  /\ \E ec \in {NoError, ConnRefused} :
       LET t == IF IsError(ec) THEN NullTransport ELSE PlainTransport(r) IN
       /\ dops' = [dops EXCEPT ![r][Len(dops[r])].out =
                                 [done |-> TRUE, ec |-> ec, transport |-> t]]
       /\ DirectCallback(r, ec, t)
  /\ dpc' = [dpc EXCEPT ![r] = "done"]
  /\ UNCHANGED <<moreVars, componentVars, socksVars, acceptVars, daddr>>

\* =====================================================================
\* One transport: TcpTransportImpl and SslTransportImpl
\* =====================================================================
NotConnected == [cat |-> "system", val |-> 107]
IoError == [cat |-> "system", val |-> 5]
ShutdownFailed == [cat |-> "asio.ssl", val |-> 1]

\* an established transport, held by its owners
TransportInit ==
  /\ tKind \in {"tcp", "ssl"}
  /\ socket_ = "open"
  /\ tls = (IF tKind = "ssl" THEN "established" ELSE "none")
  /\ owners \in 1..MaxOwners
  /\ handlers = <<>>
  /\ destroyed = FALSE
  /\ closeLog = <<>>
  /\ closeCb = <<>>
  /\ rwLog = <<>>
  /\ escaped = 0

TransportIdle ==
  /\ tKind = "tcp"
  /\ socket_ = "open"
  /\ tls = "none"
  /\ owners = 1
  /\ handlers = <<>>
  /\ destroyed = FALSE
  /\ closeLog = <<>>
  /\ closeCb = <<>>
  /\ rwLog = <<>>
  /\ escaped = 0

\* socket_.shutdown(shutdown_both, ec): a closed socket has no descriptor
ShutdownOutcomes(s) ==
  IF s = "closed" THEN {BadDescriptor} ELSE {NoError, NotConnected}

\* socket_.close: nothing to do on a closed socket, otherwise ::close may fail
CloseOutcomes(s) ==
  IF s = "closed" THEN {NoError} ELSE {NoError, IoError}

\* a close that leaves the descriptor as it was
Close_Leaks(s) == s
\* the socket after socket_.close, whether or not ::close reported an error
Close(s) == "closed"

\* the close callback is invoked for StartClose call n
CloseCallback(n, ec) == closeCb' = Append(closeCb, [call |-> n, ec |-> ec])

\* shared_ptr owners of the transport: the holders and the pending handlers
\* that captured self
RefCount(o, hs) == o + Cardinality({i \in DOMAIN hs : hs[i].self})

\* TcpTransportImpl::StartClose: shutdown(both, ec); on an error close(),
\* the overload that throws, otherwise close(ec); then callback(ec)
TcpStartClose ==
  /\ tKind = "tcp"
  /\ ~destroyed
  /\ owners > 0
  /\ Len(closeLog) < MaxCloses
  /\ \E sh \in ShutdownOutcomes(socket_), cl \in CloseOutcomes(socket_) :
       LET threw == IsError(sh) /\ IsError(cl)
           ec == IF IsError(sh) THEN sh ELSE cl
       IN /\ socket_' = Close(socket_)
          /\ closeLog' = Append(closeLog,
                                [shutdown |-> [done |-> TRUE, ec |-> sh],
                                 close |-> cl, threw |-> threw])
          /\ IF threw
               THEN escaped' = escaped + 1 /\ UNCHANGED closeCb
               ELSE CloseCallback(Len(closeLog) + 1, ec) /\ UNCHANGED escaped
  /\ UNCHANGED <<moreVars, socksVars, acceptVars, directVars, builderVars, packetVars,
                 tKind, tls, owners, handlers, destroyed, rwLog>>

\* a shutdown handler that does not keep the transport alive
ShutdownHandler_NoSelf(n) == [call |-> n, self |-> FALSE]
\* the async_shutdown handler of SslTransportImpl::StartClose: it captures
\* self = shared_from_this() and the callback
ShutdownHandler(n) == [call |-> n, self |-> TRUE]

\* SslTransportImpl::StartClose: ssl_sock_.async_shutdown(handler)
SslStartClose ==
  /\ tKind = "ssl"
  /\ ~destroyed
  /\ owners > 0
  /\ Len(closeLog) < MaxCloses
  /\ handlers' = Append(handlers, ShutdownHandler(Len(closeLog) + 1))
  /\ tls' = (IF tls = "established" THEN "shutting" ELSE tls)
  /\ closeLog' = Append(closeLog,
                        [shutdown |-> [done |-> FALSE, ec |-> NoError],
                         close |-> NoError, threw |-> FALSE])
  /\ UNCHANGED <<moreVars, socksVars, acceptVars, directVars, builderVars, packetVars,
                 tKind, socket_, owners, destroyed, closeCb, rwLog, escaped>>

\* what async_shutdown completes with: a stream already shut down reports
\* success, a stream whose shutdown failed fails again
TlsShutdownOutcomes(st) ==
  CASE st = "shutdown" -> {NoError}
    [] st = "failed" -> {ShutdownFailed}
    [] OTHER -> {NoError, ShutdownFailed}

\* the async_shutdown handler runs: callback(ec); the handler and the self
\* it holds are then released, which destructs the transport and its socket
\* when no owner is left
SslShutdownDone ==
  /\ tKind = "ssl"
  /\ handlers # <<>>
  /\ \E ec \in TlsShutdownOutcomes(tls) :
       LET h == Head(handlers)
           rest == Tail(handlers)
           gone == destroyed \/ RefCount(owners, rest) = 0
       IN /\ CloseCallback(h.call, ec)
          /\ closeLog' = [closeLog EXCEPT ![h.call].shutdown = [done |-> TRUE, ec |-> ec]]
          /\ tls' = (IF tls \in {"shutdown", "failed"} THEN tls
                     ELSE IF IsError(ec) THEN "failed" ELSE "shutdown")
          /\ handlers' = rest
          /\ destroyed' = gone
          /\ socket_' = (IF gone THEN Close(socket_) ELSE socket_)
  /\ UNCHANGED <<moreVars, socksVars, acceptVars, directVars, builderVars, packetVars,
                 tKind, owners, rwLog, escaped>>

\* an owner releases its shared_ptr; the last reference destructs the
\* transport, and with it the socket
Release ==
  /\ ~destroyed
  /\ owners > 0
  /\ owners' = owners - 1
  /\ LET gone == RefCount(owners - 1, handlers) = 0
     IN /\ destroyed' = gone
        /\ socket_' = (IF gone THEN Close(socket_) ELSE socket_)
  /\ UNCHANGED <<moreVars, socksVars, acceptVars, directVars, builderVars, packetVars,
                 tKind, tls, handlers, closeLog, closeCb, rwLog, escaped>>

\* some StartClose call has completed
CloseCompleted == \E n \in DOMAIN closeLog : closeLog[n].shutdown.done

\* what a read or write on the transport completes with: an error code and
\* the bytes transferred
IoOutcomes(op) ==
  LET ok == [ec |-> NoError, bytes |-> 1]
      eof == [ec |-> EofError, bytes |-> 0]
  IN IF tKind = "tcp"
       THEN IF socket_ = "closed" THEN {[ec |-> BadDescriptor, bytes |-> 0]}
            ELSE {ok, eof}
       ELSE CASE tls \in {"shutdown", "failed"} -> {eof}
              [] tls = "shutting" /\ op = "write" -> {eof}
              [] OTHER -> {ok, eof}

\* StartRead / StartWrite by an owner, and the completion of the operation
ReadWrite(op) ==
  /\ ~destroyed
  /\ owners > 0
  /\ Len(rwLog) < MaxOps
  /\ \E out \in IoOutcomes(op) :
       rwLog' = Append(rwLog, [op |-> op, ec |-> out.ec, bytes |-> out.bytes,
                               afterClose |-> CloseCompleted])
  /\ UNCHANGED <<moreVars, socksVars, acceptVars, directVars, builderVars, packetVars,
                 tKind, socket_, tls, owners, handlers, destroyed, closeLog,
                 closeCb, escaped>>

\* =====================================================================
\* SslTransportFactoryBuilder
\* =====================================================================
\* the files a builder can load into its context
ContextFiles == {"cert", "private_key", "dh_params", "ca_file"}

\* the context the constructor makes: sslv23 with the protocol options set,
\* nothing loaded, verify mode not set
DefaultContext ==
  [method |-> "sslv23",
   options |-> {"no_sslv2", "no_sslv3", "no_tlsv1", "single_dh_use",
                "default_workarounds"},
   loaded |-> {},
   verify |-> "unset"]

\* a context that has been moved out of
MovedContext == [method |-> "moved", options |-> {}, loaded |-> {}, verify |-> "unset"]

\* Build returned nullptr
NullFactory == [kind |-> "null", ctx |-> MovedContext]
\* new impl::SslTransportFactoryImpl(io_service_ptr, std::move(ssl_ctx_))
SslTransportFactoryImpl(ctx) == [kind |-> "ssl", ctx |-> ctx]

\* SslTransportFactoryBuilder(): the builder as constructed
BuilderInit ==
  /\ used_ = FALSE
  /\ ssl_ctx_ = DefaultContext
  /\ built = <<>>

BuilderIdle ==
  /\ BuilderInit

\* LoadCert, LoadPrivateKey, LoadDhParams, LoadCaFile: the file goes into the
\* builder's context (a builder that still owns its context)
Load(f) ==
  /\ ~used_
  /\ f \notin ssl_ctx_.loaded
  /\ ssl_ctx_' = [ssl_ctx_ EXCEPT !.loaded = @ \cup {f}]
  /\ UNCHANGED <<moreVars, socksVars, acceptVars, directVars, transportVars, packetVars,
                 used_, built>>

\* SetVerifyPeer(verify)
SetVerifyPeer(verify) ==
  /\ ~used_
  /\ ssl_ctx_.verify = "unset"
  /\ ssl_ctx_' = [ssl_ctx_ EXCEPT !.verify = IF verify THEN "peer" ELSE "none"]
  /\ UNCHANGED <<moreVars, socksVars, acceptVars, directVars, transportVars, packetVars,
                 used_, built>>

\* a Build that forgets it has been used
Build_Reusable ==
  /\ Len(built) < MaxBuilds
  /\ built' = Append(built, SslTransportFactoryImpl(ssl_ctx_))
  /\ ssl_ctx_' = MovedContext
  /\ UNCHANGED <<moreVars, socksVars, acceptVars, directVars, transportVars, packetVars,
                 used_>>

\* SslTransportFactoryBuilder::Build: nullptr when used, otherwise the flag
\* is set and a factory is made from the moved context
Build ==
  /\ Len(built) < MaxBuilds
  /\ IF used_
       THEN /\ built' = Append(built, NullFactory)
            /\ UNCHANGED <<used_, ssl_ctx_>>
       ELSE /\ used_' = TRUE
            /\ built' = Append(built, SslTransportFactoryImpl(ssl_ctx_))
            /\ ssl_ctx_' = MovedContext
  /\ UNCHANGED <<moreVars, socksVars, acceptVars, directVars, transportVars, packetVars>>

\* =====================================================================
\* Packet readers
\* =====================================================================
\* the byte values a stream carries: the SOCKS version, another version and
\* a zero byte
Bytes == {5, 4, 0}

RECURSIVE Streams(_)
\* the byte strings of length up to n
Streams(n) ==
  IF n = 0 THEN {<<>>}
  ELSE LET shorter == Streams(n - 1)
       IN shorter \cup {Append(b, x) : b \in {t \in shorter : Len(t) = n - 1}, x \in Bytes}

\* the sizes N of the fixed-size packets: AuthMethodSelect has two bytes,
\* RequestHeader and ResponseHeader three
PacketSizes == {2, 3}

\* PacketType packet: a default-constructed packet
DefaultPacket == [bytes |-> <<>>]
\* packet.FromBytes(data->data()): the packet's fields are filled from the bytes
FromBytes(data) == [bytes |-> data]

\* where the reader is, and the size of the body still to be read
At(where, b) == [at |-> where, body |-> b]

\* a reader before any packet is read: the peer will send stream and then
\* close
PacketInit ==
  /\ stream \in Streams(MaxStream)
  /\ ppc = At("idle", 0)
  /\ reads = <<>>
  /\ created = <<>>

PacketIdle ==
  /\ stream = <<>>
  /\ ppc = At("idle", 0)
  /\ reads = <<>>
  /\ created = <<>>

\* the size of the buffer the reader of an N-byte packet hands to StartRead:
\* std::array<char, N>
ReadSize(n) == n

\* transport->StartRead(*data, handler) for a buffer of n bytes, short reads
\* not allowed
StartRead(n) == Append(reads, [n |-> n, done |-> FALSE, ec |-> NoError, got |-> <<>>])

\* the bytes an outstanding read of n bytes completes with: the buffer is
\* filled, or the stream ends first and the read fails with end of file
ReadResult(n) ==
  IF Len(stream) >= n
    THEN [ec |-> NoError, got |-> SubSeq(stream, 1, n)]
    ELSE [ec |-> EofError, got |-> stream]

\* the create callback is invoked with (ec, packet)
CreateCallback(ec, packet) == created' = Append(created, [ec |-> ec, packet |-> packet])

\* PacketWithSize<PacketType, N>::StartCreateFrom
StartCreateFromSized(n) ==
  /\ ppc.at = "idle"
  /\ reads' = StartRead(ReadSize(n))
  /\ ppc' = At("sized", 0)
  /\ UNCHANGED <<moreVars, socksVars, acceptVars, directVars, transportVars, builderVars,
                 stream, created>>

\* the read handler of PacketWithSize::StartCreateFrom: FromBytes when the
\* read succeeded, then callback(error_code, packet)
SizedReadDone ==
  /\ ppc.at = "sized"
  /\ LET k == Len(reads)
         r == ReadResult(reads[k].n)
     IN /\ reads' = [reads EXCEPT ![k] = [n |-> @.n, done |-> TRUE, ec |-> r.ec, got |-> r.got]]
        /\ stream' = SubSeq(stream, Len(r.got) + 1, Len(stream))
        /\ CreateCallback(r.ec, IF IsError(r.ec) THEN DefaultPacket ELSE FromBytes(r.got))
  /\ ppc' = At("done", 0)
  /\ UNCHANGED <<moreVars, socksVars, acceptVars, directVars, transportVars, builderVars>>

\* PacketWithHeader<Header, Body>::StartCreateFrom, with a header of h bytes
\* and a body of b bytes: Header::StartCreateFrom
StartCreateFromWithHeader(h, b) ==
  /\ ppc.at = "idle"
  /\ reads' = StartRead(ReadSize(h))
  /\ ppc' = At("header", b)
  /\ UNCHANGED <<moreVars, socksVars, acceptVars, directVars, transportVars, builderVars,
                 stream, created>>

\* the header callback of PacketWithHeader::StartCreateFrom: an error goes
\* to the callback with a default packet, otherwise Body::StartCreateFrom
HeaderReadDone ==
  /\ ppc.at = "header"
  /\ LET k == Len(reads)
         r == ReadResult(reads[k].n)
         completed == [reads EXCEPT ![k] = [n |-> @.n, done |-> TRUE, ec |-> r.ec, got |-> r.got]]
     IN /\ stream' = SubSeq(stream, Len(r.got) + 1, Len(stream))
        /\ IF IsError(r.ec)
             THEN /\ reads' = completed
                  /\ CreateCallback(r.ec, [header |-> DefaultPacket, body |-> DefaultPacket])
                  /\ ppc' = At("done", 0)
             ELSE /\ reads' = Append(completed,
                                     [n |-> ReadSize(ppc.body), done |-> FALSE,
                                      ec |-> NoError, got |-> <<>>])
                  /\ ppc' = At("body", 0)
                  /\ UNCHANGED created
  /\ UNCHANGED <<moreVars, socksVars, acceptVars, directVars, transportVars, builderVars>>

\* the body callback of PacketWithHeader::StartCreateFrom: the packet holds
\* header and body when the body was read, and goes to the callback with ec
BodyReadDone ==
  /\ ppc.at = "body"
  /\ LET k == Len(reads)
         r == ReadResult(reads[k].n)
     IN /\ reads' = [reads EXCEPT ![k] = [n |-> @.n, done |-> TRUE, ec |-> r.ec, got |-> r.got]]
        /\ stream' = SubSeq(stream, Len(r.got) + 1, Len(stream))
        /\ CreateCallback(r.ec,
              IF IsError(r.ec)
                THEN [header |-> DefaultPacket, body |-> DefaultPacket]
                ELSE [header |-> FromBytes(reads[1].got), body |-> FromBytes(r.got)])
  /\ ppc' = At("done", 0)
  /\ UNCHANGED <<moreVars, socksVars, acceptVars, directVars, transportVars, builderVars>>

ComponentsIdle ==
  /\ TransportIdle
  /\ BuilderIdle
  /\ PacketIdle

\* =====================================================================
\* Address and the packets that carry one
\* =====================================================================
\* boost::asio::ip::address_v4::bytes_type and address_v6::bytes_type
IPv4Size == 4
IPv6Size == 16
\* the longest domain name the one length byte of the wire form can announce
MaxDomainLength == 255
\* values of the uint16_t port
Ports == {0, 80, 65535}

Zeros(n) == [i \in 1..n |-> 0]
\* struct Address: type = kIPv4, host{0, 0, 0, 0}, port = 0
DefaultAddress == Address(kIPv4, Zeros(IPv4Size), 0)

\* the endpoints handed to FromAsioEndpoint: any and loopback addresses of
\* both families, and an endpoint whose address is of neither family
Endpoints ==
  [kind : {"v4"}, host : {Zeros(IPv4Size), <<127, 0, 0, 1>>}, port : Ports]
    \cup [kind : {"v6"},
          host : {Zeros(IPv6Size), [i \in 1..IPv6Size |-> IF i = IPv6Size THEN 1 ELSE 0]},
          port : Ports]
    \cup [kind : {"other"}, host : {<<>>}, port : Ports]

\* a FromAsioEndpoint that returns the default address for an invalid endpoint
FromAsioEndpoint_DefaultForInvalid(ep) ==
  IF ep.kind = "v4" THEN Address(kIPv4, ep.host, ep.port)
  ELSE IF ep.kind = "v6" THEN Address(kIPv6, ep.host, ep.port)
  ELSE DefaultAddress
\* Address::FromAsioEndpoint
FromAsioEndpoint(ep) ==
  IF ep.kind = "v4" THEN Address(kIPv4, ep.host, ep.port)
  ELSE IF ep.kind = "v6" THEN Address(kIPv6, ep.host, ep.port)
  ELSE [DefaultAddress EXCEPT !.type = kInvalidAddressType]

\* domain names of the shortest and the longest length, and one in between
DomainNames == { [i \in 1..n |-> 97] : n \in {1, 2, MaxDomainLength} }

\* ---- the wire form of an Address: ATYP, host, port
\* a port written low byte first
PortBytes_LittleEndian(p) == <<p % 256, p \div 256>>
\* the port in network order
PortBytes(p) == <<p \div 256, p % 256>>
PortFromBytes(d) == d[1] * 256 + d[2]

AddressToString(a) ==
  <<a.type>>
    \o (IF a.type = kDomainName THEN <<Len(a.host) % 256>> ELSE <<>>)
    \o a.host \o PortBytes(a.port)

\* ---- RequestHeader and ResponseHeader: VER, CMD or REP, RSV
Header(v, c) == [ver |-> v, code |-> c]
DefaultHeader == Header(0, 0)
\* CMD of a RequestHeader, REP of a ResponseHeader
HeaderCodes(cls) ==
  IF cls = "RequestPacket" THEN {1, 2, 3}
  ELSE IF cls = "ResponsePacket" THEN {ResponseCode.kSuccess, ResponseCode.kConnectionRefused}
  ELSE {0}
HeaderSize == 3
\* ToBytes: RSV is written as 0
HeaderToString(h) == <<h.ver, h.code, 0>>
\* FromBytes: RSV is ignored
HeaderFromBytes(d) == Header(d[1], d[2])

PacketClasses == {"Address", "RequestPacket", "ResponsePacket"}
Packet(cls, h, b) == [cls |-> cls, header |-> h, body |-> b]
\* a default-constructed packet of a class
DefaultOf(cls) == Packet(cls, DefaultHeader, DefaultAddress)

\* a ToString that puts the body first
WithHeaderToString_BodyFirst(p) ==
  AddressToString(p.body) \o HeaderToString(p.header)
\* PacketWithHeader<Header, Body>::ToString
WithHeaderToString(p) ==
  HeaderToString(p.header) \o AddressToString(p.body)

PacketToString(p) ==
  IF p.cls = "Address" THEN AddressToString(p.body) ELSE WithHeaderToString(p)

\* bytes that follow a packet on the same transport
Trailing == { [i \in 1..n |-> 5] : n \in 0..MaxTrailing }

\* bytes a peer sends that are no Address: an unknown ATYP, the ATYP of an
\* invalid address, a domain of length 0, and an address cut short
Malformed ==
  { <<2, 0, 0, 0, 0, 0, 80>>, <<kInvalidAddressType, 0, 0, 0, 0, 0, 80>>,
    <<kDomainName, 0, 0, 80>>, <<kIPv4, 127, 0>>, <<>> }

Where(at, cls, by) == [at |-> at, cls |-> cls, by |-> by]

CodecInit ==
  /\ asioEndpoint = [kind |-> "none", host |-> <<>>, port |-> 0]
  /\ original = DefaultOf("Address")
  /\ wire = [sent |-> <<>>, extra |-> <<>>, rest |-> <<>>]
  /\ cpc = Where("new", "Address", "")
  /\ partial = [header |-> DefaultHeader, type |-> 0, need |-> 0, host |-> <<>>]
  /\ decoded = [done |-> FALSE, ec |-> NoError, packet |-> DefaultOf("Address")]

\* Address::FromAsioEndpoint(ep)
Convert(ep) ==
  /\ cpc.at = "new"
  /\ asioEndpoint' = ep
  /\ original' = [original EXCEPT !.body = FromAsioEndpoint(ep)]
  /\ cpc' = Where("address", "Address", "FromAsioEndpoint")
  /\ UNCHANGED <<wire, partial, decoded>>
  /\ UNCHANGED <<socksVars, acceptVars, directVars, componentVars, relayVars, serverVars>>

\* Address address; and nothing more
DefaultConstruct ==
  /\ cpc.at = "new"
  /\ original' = [original EXCEPT !.body = DefaultAddress]
  /\ cpc' = Where("address", "Address", "default")
  /\ UNCHANGED <<asioEndpoint, wire, partial, decoded>>
  /\ UNCHANGED <<socksVars, acceptVars, directVars, componentVars, relayVars, serverVars>>

\* an Address whose fields are assigned: a domain name and a port
AssignDomain(name, port) ==
  /\ cpc.at = "new"
  /\ original' = [original EXCEPT !.body = Address(kDomainName, name, port)]
  /\ cpc' = Where("address", "Address", "assigned")
  /\ UNCHANGED <<asioEndpoint, wire, partial, decoded>>
  /\ UNCHANGED <<socksVars, acceptVars, directVars, componentVars, relayVars, serverVars>>

\* the address becomes the body of a packet of class cls, or stays alone
MakePacket(cls, code) ==
  /\ cpc.at = "address"
  /\ original' = Packet(cls, IF cls = "Address" THEN DefaultHeader ELSE Header(5, code),
                        original.body)
  /\ cpc' = Where("made", cls, cpc.by)
  /\ UNCHANGED <<asioEndpoint, wire, partial, decoded>>
  /\ UNCHANGED <<socksVars, acceptVars, directVars, componentVars, relayVars, serverVars>>

\* PacketBase::StartWriteTo: the bytes of ToString() are written; the
\* transport may carry more bytes after them
StartWriteTo(extra) ==
  /\ cpc.at = "made"
  /\ wire' = [sent |-> PacketToString(original), extra |-> extra,
              rest |-> PacketToString(original) \o extra]
  /\ cpc' = Where("written", cpc.cls, cpc.by)
  /\ UNCHANGED <<asioEndpoint, original, partial, decoded>>
  /\ UNCHANGED <<socksVars, acceptVars, directVars, componentVars, relayVars, serverVars>>

\* a peer sends the bytes raw where a packet of class cls is expected, after
\* a header when the class has one
PeerWrites(cls, raw) ==
  /\ cpc.at = "new"
  /\ LET bytes == (IF cls = "Address" THEN <<>> ELSE HeaderToString(Header(5, 1))) \o raw
     IN wire' = [sent |-> bytes, extra |-> <<>>, rest |-> bytes]
  /\ cpc' = Where("written", cls, "peer")
  /\ UNCHANGED <<asioEndpoint, original, partial, decoded>>
  /\ UNCHANGED <<socksVars, acceptVars, directVars, componentVars, relayVars, serverVars>>

\* transport->StartRead of n bytes: all of them, or an error at the end of
\* the stream
WireRead(n) ==
  IF Len(wire.rest) >= n
    THEN [ec |-> NoError, got |-> SubSeq(wire.rest, 1, n)]
    ELSE [ec |-> EofError, got |-> wire.rest]
Consume(r) ==
  wire' = [wire EXCEPT !.rest = SubSeq(@, Len(r.got) + 1, Len(@))]

\* the create callback gets an error and a default-constructed packet
CreateFailed(ec) ==
  /\ decoded' = [done |-> TRUE, ec |-> ec, packet |-> DefaultOf(cpc.cls)]
  /\ cpc' = Where("done", cpc.cls, cpc.by)
  /\ UNCHANGED partial

\* StartCreateFrom of the class: PacketWithHeader reads its header first
StartCreateFrom ==
  /\ cpc.at = "written"
  /\ cpc' = Where(IF cpc.cls = "Address" THEN "type" ELSE "header", cpc.cls, cpc.by)
  /\ UNCHANGED <<asioEndpoint, original, wire, partial, decoded>>
  /\ UNCHANGED <<socksVars, acceptVars, directVars, componentVars, relayVars, serverVars>>

\* the header callback of PacketWithHeader::StartCreateFrom
HeaderCreated ==
  /\ cpc.at = "header"
  /\ LET r == WireRead(HeaderSize) IN
       /\ Consume(r)
       /\ IF IsError(r.ec)
            THEN CreateFailed(r.ec)
            ELSE /\ partial' = [partial EXCEPT !.header = HeaderFromBytes(r.got)]
                 /\ cpc' = Where("type", cpc.cls, cpc.by)
                 /\ UNCHANGED decoded
  /\ UNCHANGED <<asioEndpoint, original>>
  /\ UNCHANGED <<socksVars, acceptVars, directVars, componentVars, relayVars, serverVars>>

\* Address, first phase: ATYP
TypeRead ==
  /\ cpc.at = "type"
  /\ LET r == WireRead(1) IN
       /\ Consume(r)
       /\ IF IsError(r.ec) THEN CreateFailed(r.ec)
          ELSE IF r.got[1] \in {kIPv4, kIPv6}
            THEN /\ partial' = [partial EXCEPT !.type = r.got[1],
                                  !.need = IF r.got[1] = kIPv4 THEN IPv4Size ELSE IPv6Size]
                 /\ cpc' = Where("host", cpc.cls, cpc.by)
                 /\ UNCHANGED decoded
          ELSE IF r.got[1] = kDomainName
            THEN /\ partial' = [partial EXCEPT !.type = r.got[1]]
                 /\ cpc' = Where("length", cpc.cls, cpc.by)
                 /\ UNCHANGED decoded
          ELSE CreateFailed(make_error_code(ResponseCode.kAddressTypeNotSupported))
  /\ UNCHANGED <<asioEndpoint, original>>
  /\ UNCHANGED <<socksVars, acceptVars, directVars, componentVars, relayVars, serverVars>>

\* the length byte of a domain name
LengthRead ==
  /\ cpc.at = "length"
  /\ LET r == WireRead(1) IN
       /\ Consume(r)
       /\ IF IsError(r.ec) THEN CreateFailed(r.ec)
          ELSE IF r.got[1] = 0
            THEN CreateFailed(make_error_code(ResponseCode.kGeneralFailure))
          ELSE /\ partial' = [partial EXCEPT !.need = r.got[1]]
               /\ cpc' = Where("host", cpc.cls, cpc.by)
               /\ UNCHANGED decoded
  /\ UNCHANGED <<asioEndpoint, original>>
  /\ UNCHANGED <<socksVars, acceptVars, directVars, componentVars, relayVars, serverVars>>

\* the host bytes
HostRead ==
  /\ cpc.at = "host"
  /\ LET r == WireRead(partial.need) IN
       /\ Consume(r)
       /\ IF IsError(r.ec) THEN CreateFailed(r.ec)
          ELSE /\ partial' = [partial EXCEPT !.host = r.got]
               /\ cpc' = Where("port", cpc.cls, cpc.by)
               /\ UNCHANGED decoded
  /\ UNCHANGED <<asioEndpoint, original>>
  /\ UNCHANGED <<socksVars, acceptVars, directVars, componentVars, relayVars, serverVars>>

\* the port; the Address is complete and, in a PacketWithHeader, the body
\* callback fills the packet with the header captured and the body
PortRead ==
  /\ cpc.at = "port"
  /\ LET r == WireRead(2) IN
       /\ Consume(r)
       /\ IF IsError(r.ec) THEN CreateFailed(r.ec)
          ELSE /\ decoded' =
                    [done |-> TRUE, ec |-> NoError,
                     packet |-> Packet(cpc.cls, partial.header,
                                       Address(partial.type, partial.host,
                                               PortFromBytes(r.got)))]
               /\ cpc' = Where("done", cpc.cls, cpc.by)
               /\ UNCHANGED partial
  /\ UNCHANGED <<asioEndpoint, original>>
  /\ UNCHANGED <<socksVars, acceptVars, directVars, componentVars, relayVars, serverVars>>

\* =====================================================================
\* The relay between a downstream transport D and an upstream transport U
\* =====================================================================
Transports == {"D", "U"}
Directions == {"d2u", "u2d"}
\* a direction reads from one transport and writes to the other
Src(d) == IF d = "d2u" THEN "D" ELSE "U"
Dst(d) == IF d = "d2u" THEN "U" ELSE "D"

NoOps == [reads |-> 0, writes |-> 0]

RelayInit ==
  /\ rsock = [t \in Transports |-> "open"]
  /\ dirs = [d \in Directions |-> [at |-> "idle", chunks |-> 0]]
  /\ inflight = [t \in Transports |-> NoOps]
  /\ relay = [closer |-> "", complete |-> FALSE, released |-> FALSE, escaped |-> FALSE]

\* both directions start with a read_some on their source
StartRelay ==
  /\ \A d \in Directions : dirs[d].at = "idle"
  /\ dirs' = [d \in Directions |-> [at |-> "read", chunks |-> 0]]
  /\ inflight' = [t \in Transports |-> [reads |-> 1, writes |-> 0]]
  /\ UNCHANGED <<rsock, relay>>
  /\ UNCHANGED <<socksVars, acceptVars, directVars, componentVars, codecVars, serverVars>>

\* a read handler that writes the bytes and reads on without waiting
AfterRead_Pipelined(d, ops) ==
  [ops EXCEPT ![Dst(d)].writes = @ + 1]
\* the read handler of a direction: the read is over, the bytes read are
\* written to the other transport
AfterRead(d, ops) ==
  [ops EXCEPT ![Src(d)].reads = @ - 1, ![Dst(d)].writes = @ + 1]

\* the write handler of a direction: the write is over, the next read starts
AfterWrite(d, ops) ==
  [ops EXCEPT ![Dst(d)].writes = @ - 1, ![Src(d)].reads = @ + 1]

\* the operation of a direction that ended with an error is over
AfterError(d, ops) ==
  IF dirs[d].at = "read" THEN [ops EXCEPT ![Src(d)].reads = @ - 1]
  ELSE [ops EXCEPT ![Dst(d)].writes = @ - 1]

\* TcpTransportImpl::StartClose of a relayed transport throws when the
\* shutdown fails and the close that follows fails too
CloseThrows(t, sh, cl) == IsError(sh) /\ IsError(cl)

\* a direction terminates.  The first one to do so calls StartClose on D and
\* then on U; an exception of the first call leaves the handler before the
\* second call.  The relay is complete when both directions have exited.
Exit(d) ==
  /\ dirs' = [dirs EXCEPT ![d].at = "exited"]
  /\ inflight' = AfterError(d, inflight)
  /\ IF relay.closer = ""
       THEN \E shD \in ShutdownOutcomes(rsock["D"]), clD \in CloseOutcomes(rsock["D"]),
               shU \in ShutdownOutcomes(rsock["U"]), clU \in CloseOutcomes(rsock["U"]) :
              IF CloseThrows("D", shD, clD)
                THEN /\ rsock' = [rsock EXCEPT !["D"] = Close(@)]
                     /\ relay' = [relay EXCEPT !.closer = d, !.escaped = TRUE]
                ELSE /\ rsock' = [t \in Transports |-> Close(rsock[t])]
                     /\ relay' = [relay EXCEPT !.closer = d,
                                               !.escaped = CloseThrows("U", shU, clU)]
       ELSE /\ relay' = [relay EXCEPT !.complete = TRUE, !.released = TRUE]
            /\ UNCHANGED rsock

\* a read_some completes: with bytes only while the source is open
ReadDone(d, ok) ==
  /\ dirs[d].at = "read"
  /\ ~relay.escaped
  /\ ok => rsock[Src(d)] = "open" /\ dirs[d].chunks < MaxChunks
  /\ IF ok
       THEN /\ dirs' = [dirs EXCEPT ![d].at = "write"]
            /\ inflight' = AfterRead(d, inflight)
            /\ UNCHANGED <<rsock, relay>>
       ELSE Exit(d)
  /\ UNCHANGED <<socksVars, acceptVars, directVars, componentVars, codecVars, serverVars>>

\* a write_all completes: successfully only while the destination is open
WriteDone(d, ok) ==
  /\ dirs[d].at = "write"
  /\ ~relay.escaped
  /\ ok => rsock[Dst(d)] = "open"
  /\ IF ok
       THEN /\ dirs' = [dirs EXCEPT ![d] = [at |-> "read", chunks |-> @.chunks + 1]]
            /\ inflight' = AfterWrite(d, inflight)
            /\ UNCHANGED <<rsock, relay>>
       ELSE Exit(d)
  /\ UNCHANGED <<socksVars, acceptVars, directVars, componentVars, codecVars, serverVars>>

\* =====================================================================
\* The downstream SOCKS5 server on one accepted transport
\* =====================================================================
\* AuthMethod and Command of the SOCKS protocol (the wire values)
kNoAuth == 0
kNoAcceptable == 255
kConnect == 1
kCommandNotSupported == 7
Methods == {kNoAuth, 1, 2}
Commands == {kConnect, 2, 3}
RECURSIVE MethodLists(_)
MethodLists(n) ==
  IF n = 0 THEN {<<>>}
  ELSE MethodLists(n - 1)
         \cup { Append(l, m) : l \in { k \in MethodLists(n - 1) : Len(k) = n - 1 },
                               m \in Methods }
Versions == {4, 5}

\* 0.0.0.0:0
AnyAddress == Address(kIPv4, <<0, 0, 0, 0>>, 0)
\* what the upstream factory reports: a transport, or a failure with its
\* response code
UpstreamResults ==
  { [ok |-> TRUE, code |-> ResponseCode.kSuccess],
    [ok |-> FALSE, code |-> ResponseCode.kConnectionRefused],
    [ok |-> FALSE, code |-> ResponseCode.kGeneralFailure] }
\* local_address() of the upstream transport
UpstreamLocalAddress == Address(kIPv4, <<10, 0, 0, 1>>, 80)

ServerInit ==
  /\ spc = "S0"
  /\ greeting = [ver |-> 0, methods |-> <<>>]
  /\ sreq = [cmd |-> 0, target |-> NoAddress]
  /\ replies = <<>>
  /\ srv = [closes |-> 0, upstreamCalls |-> 0, relaying |-> FALSE, requestReads |-> 0]

\* a server that looks at the first method only
SelectMethod_FirstOnly(methods) ==
  IF methods[1] = kNoAuth THEN kNoAuth ELSE kNoAcceptable
\* NoAuth when the list has it, NoAcceptable otherwise
SelectMethod(methods) ==
  IF \E i \in DOMAIN methods : methods[i] = kNoAuth THEN kNoAuth ELSE kNoAcceptable

\* a server that hands every request to the upstream factory
NeedsUpstream_Always(cmd) == TRUE
\* only Connect is accepted
NeedsUpstream(cmd) == cmd = kConnect

Reply(kind, code, bound) == [kind |-> kind, code |-> code, bound |-> bound]
ServerClose == srv' = [srv EXCEPT !.closes = @ + 1]

\* S0: the AuthMethodList is read; a transport error or a list without
\* methods closes silently
GreetingRead(ver, methods, ok) ==
  /\ spc = "S0"
  /\ IF ok /\ methods # <<>>
       THEN /\ greeting' = [ver |-> ver, methods |-> methods]
            /\ spc' = "S1"
            /\ UNCHANGED srv
       ELSE /\ ServerClose
            /\ spc' = "closed"
            /\ UNCHANGED greeting
  /\ UNCHANGED <<sreq, replies>>
  /\ UNCHANGED <<socksVars, acceptVars, directVars, componentVars, codecVars, relayVars>>

\* S1: another version closes; otherwise the method is selected and the
\* AuthMethodSelect written, and after NoAuth the RequestPacket is read
MethodSelected ==
  /\ spc = "S1"
  /\ IF greeting.ver # 5
       THEN /\ ServerClose
            /\ spc' = "closed"
            /\ UNCHANGED replies
       ELSE LET method == SelectMethod(greeting.methods) IN
            /\ replies' = Append(replies, Reply("AuthMethodSelect", method, NoAddress))
            /\ IF method = kNoAuth
                 THEN /\ srv' = [srv EXCEPT !.requestReads = @ + 1]
                      /\ spc' = "S2"
                 ELSE /\ ServerClose
                      /\ spc' = "closed"
  /\ UNCHANGED <<greeting, sreq>>
  /\ UNCHANGED <<socksVars, acceptVars, directVars, componentVars, codecVars, relayVars>>

\* S2: the RequestPacket is read; a transport error closes silently
RequestRead(cmd, addr, ok) ==
  /\ spc = "S2"
  /\ IF ok
       THEN /\ sreq' = [cmd |-> cmd, target |-> addr]
            /\ spc' = "S3"
            /\ UNCHANGED srv
       ELSE /\ ServerClose
            /\ spc' = "closed"
            /\ UNCHANGED sreq
  /\ UNCHANGED <<greeting, replies>>
  /\ UNCHANGED <<socksVars, acceptVars, directVars, componentVars, codecVars, relayVars>>

\* S3: a command other than Connect is answered with CommandNotSupported
\* and 0.0.0.0:0 and the transport closed; Connect goes to the upstream
\* factory
RequestKnown ==
  /\ spc = "S3"
  /\ IF NeedsUpstream(sreq.cmd)
       THEN /\ srv' = [srv EXCEPT !.upstreamCalls = @ + 1]
            /\ spc' = "S4"
            /\ UNCHANGED replies
       ELSE /\ replies' = Append(replies,
                                 Reply("ResponsePacket", kCommandNotSupported, AnyAddress))
            /\ ServerClose
            /\ spc' = "closed"
  /\ UNCHANGED <<greeting, sreq>>
  /\ UNCHANGED <<socksVars, acceptVars, directVars, componentVars, codecVars, relayVars>>

\* S4: the upstream factory reports; a failure is answered with its code and
\* the transport closed, a success with the upstream's local address, and
\* the relay starts
UpstreamReported(res) ==
  /\ spc = "S4"
  /\ IF res.ok
       THEN /\ replies' = Append(replies,
                                 Reply("ResponsePacket", ResponseCode.kSuccess,
                                       UpstreamLocalAddress))
            /\ srv' = [srv EXCEPT !.relaying = TRUE]
            /\ spc' = "S5"
       ELSE /\ replies' = Append(replies, Reply("ResponsePacket", res.code, AnyAddress))
            /\ ServerClose
            /\ spc' = "closed"
  /\ UNCHANGED <<greeting, sreq>>
  /\ UNCHANGED <<socksVars, acceptVars, directVars, componentVars, codecVars, relayVars>>

MoreIdle ==
  /\ CodecInit
  /\ RelayInit
  /\ ServerInit

\* =====================================================================
\* Specifications
\* =====================================================================
Init ==
  /\ SocksInit
  /\ acceptKind = "tcp"
  /\ AcceptIdle
  /\ DirectIdle
  /\ ComponentsIdle
  /\ MoreIdle

Next ==
  \E r \in Reqs :
    \/ StartRequest(r)
    \/ AcquireLock(r)
    \/ Resolve(r)
    \/ TryConnectStep(r)
    \/ StartConnect(r)
    \/ TcpConnectDone(r)
    \/ SslConnectDone(r)
    \/ SslHandshakeDone(r)
    \/ OnAuthWritten(r)
    \/ OnAuthSelectRead(r)
    \/ OnRequestWritten(r)
    \/ OnResponseHeaderRead(r)
    \/ OnResponseBodyRead(r)
    \/ WrapperUse(r)

Spec == Init /\ [][Next]_vars

\* the socks factory as constructed, with no request made
SocksIdle ==
  /\ factoryKind = "tcp"
  /\ is_upstream_endpoint_init_ = FALSE
  /\ upstream_endpoint_ = 0
  /\ upstream_endpoint_init_mtx_ = 0
  /\ pc = [r \in Reqs |-> "idle"]
  /\ target = [r \in Reqs |-> NoAddress]
  /\ iter = [r \in Reqs |-> NoIter]
  /\ sock = [r \in Reqs |-> NoSock]
  /\ selected = [r \in Reqs |-> ""]
  /\ hdr = [r \in Reqs |-> 0]
  /\ body = [r \in Reqs |-> NoAddress]
  /\ io = [r \in Reqs |-> <<>>]
  /\ cb = [r \in Reqs |-> <<>>]
  /\ resolutions = <<>>

InitAccept ==
  /\ AcceptInit
  /\ SocksIdle
  /\ DirectIdle
  /\ ComponentsIdle
  /\ MoreIdle

NextAccept ==
  \/ StartAccept
  \/ \E c \in Clients : ClientConnects(c)
  \/ \E k \in DOMAIN rounds : TcpAcceptDone(k)
  \/ \E k \in DOMAIN rounds : SslAcceptDone(k)
  \/ \E k \in DOMAIN rounds : SslAcceptHandshakeDone(k)

SpecAccept == InitAccept /\ [][NextAccept]_vars

InitDirect ==
  /\ DirectInit
  /\ SocksIdle
  /\ acceptKind = "tcp"
  /\ AcceptIdle
  /\ ComponentsIdle
  /\ MoreIdle

NextDirect ==
  \E r \in Reqs :
    \/ DirectStartRequest(r)
    \/ DirectResolved(r)
    \/ DirectConnectDone(r)

SpecDirect == InitDirect /\ [][NextDirect]_vars

InitTransport ==
  /\ TransportInit
  /\ BuilderIdle
  /\ PacketIdle
  /\ SocksIdle
  /\ acceptKind = "tcp"
  /\ AcceptIdle
  /\ DirectIdle
  /\ MoreIdle

NextTransport ==
  \/ TcpStartClose
  \/ SslStartClose
  \/ SslShutdownDone
  \/ Release
  \/ \E op \in {"read", "write"} : ReadWrite(op)

SpecTransport == InitTransport /\ [][NextTransport]_vars

InitBuilder ==
  /\ BuilderInit
  /\ TransportIdle
  /\ PacketIdle
  /\ SocksIdle
  /\ acceptKind = "tcp"
  /\ AcceptIdle
  /\ DirectIdle
  /\ MoreIdle

NextBuilder ==
  \/ \E f \in ContextFiles : Load(f)
  \/ \E verify \in BOOLEAN : SetVerifyPeer(verify)
  \/ Build

SpecBuilder == InitBuilder /\ [][NextBuilder]_vars

InitPacket ==
  /\ PacketInit
  /\ TransportIdle
  /\ BuilderIdle
  /\ SocksIdle
  /\ acceptKind = "tcp"
  /\ AcceptIdle
  /\ DirectIdle
  /\ MoreIdle

NextPacket ==
  \/ \E n \in PacketSizes : StartCreateFromSized(n)
  \/ SizedReadDone
  \/ \E h, b \in PacketSizes : StartCreateFromWithHeader(h, b)
  \/ HeaderReadDone
  \/ BodyReadDone

SpecPacket == InitPacket /\ [][NextPacket]_vars

InitCodec ==
  /\ CodecInit
  /\ RelayInit
  /\ ServerInit
  /\ ComponentsIdle
  /\ SocksIdle
  /\ acceptKind = "tcp"
  /\ AcceptIdle
  /\ DirectIdle

NextCodec ==
  \/ \E ep \in Endpoints : Convert(ep)
  \/ DefaultConstruct
  \/ \E name \in DomainNames, port \in Ports : AssignDomain(name, port)
  \/ \E cls \in PacketClasses : \E code \in HeaderCodes(cls) : MakePacket(cls, code)
  \/ \E extra \in Trailing : StartWriteTo(extra)
  \/ \E cls \in PacketClasses, raw \in Malformed : PeerWrites(cls, raw)
  \/ StartCreateFrom
  \/ HeaderCreated
  \/ TypeRead
  \/ LengthRead
  \/ HostRead
  \/ PortRead

SpecCodec == InitCodec /\ [][NextCodec]_vars

InitRelay ==
  /\ RelayInit
  /\ CodecInit
  /\ ServerInit
  /\ ComponentsIdle
  /\ SocksIdle
  /\ acceptKind = "tcp"
  /\ AcceptIdle
  /\ DirectIdle

NextRelay ==
  \/ StartRelay
  \/ \E d \in Directions, ok \in BOOLEAN : ReadDone(d, ok)
  \/ \E d \in Directions, ok \in BOOLEAN : WriteDone(d, ok)

SpecRelay == InitRelay /\ [][NextRelay]_vars

InitServer ==
  /\ ServerInit
  /\ CodecInit
  /\ RelayInit
  /\ ComponentsIdle
  /\ SocksIdle
  /\ acceptKind = "tcp"
  /\ AcceptIdle
  /\ DirectIdle

NextServer ==
  \/ \E ver \in Versions, methods \in MethodLists(MaxMethods), ok \in BOOLEAN :
       GreetingRead(ver, methods, ok)
  \/ MethodSelected
  \/ \E cmd \in Commands, addr \in Addrs, ok \in BOOLEAN : RequestRead(cmd, addr, ok)
  \/ RequestKnown
  \/ \E res \in UpstreamResults : UpstreamReported(res)

SpecServer == InitServer /\ [][NextServer]_vars

\* ====================================================================
\* Properties of SocksTcpUpstreamFactory (specification Spec)
\* ====================================================================
Failed(outcome) == outcome \in {"resolve_error", "connect_error"}
Resolving(r) == pc[r] \in {"resolve", "tryconnect"}
\* the request callback delivered a transport
Delivered(c) == c.transport # NullTransport
FailingStepDone(r) ==
  /\ pc[r] = "done"
  /\ io[r] # <<>>
  /\ \/ io[r][Len(io[r])].res = "error"
     \/ (Len(io[r]) = 2 /\ selected[r] \notin {"", "kNoAuth"})
     \/ (Len(io[r]) = 5 /\ hdr[r] # ResponseCode.kSuccess)

\* C1, as stated: the upstream host is resolved exactly once; after one
\* resolution attempt, whatever its outcome, no request resolves again.
C1_ResolvedOnceWhateverOutcome == Len(resolutions) <= 1

\* C1, amended: resolution attempts never overlap, an attempt is made only
\* while every earlier one has failed, and once an attempt has initialised
\* upstream_endpoint_ no concurrent or later request resolves again.
C1_ResolvedOnceSuccessfully ==
  /\ Cardinality({r \in Reqs : Resolving(r)}) <= 1
  /\ \A i, j \in DOMAIN resolutions : i < j => Failed(resolutions[i].outcome)
  /\ is_upstream_endpoint_init_ =>
       /\ \A r \in Reqs : ~Resolving(r)
       /\ resolutions # <<>>
       /\ resolutions[Len(resolutions)].outcome = "initialised"

\* two requests passed the first check together, one of them initialised
\* the endpoint and the other went on to connect without resolving
C1_Witness ==
  \E r1, r2 \in Reqs :
    /\ r1 # r2
    /\ Len(resolutions) = 1
    /\ resolutions[1].req = r1
    /\ resolutions[1].outcome = "initialised"
    /\ sock[r2].state = "connecting"

\* C2: after the first request connected, upstream_endpoint_ is the resolver
\* result its transport is connected to, for both factories.
C2_RemembersConnectedEndpoint ==
  \A i \in DOMAIN resolutions :
    resolutions[i].outcome = "initialised" =>
      upstream_endpoint_ = sock[resolutions[i].req].endpoint

\* the reads and writes of one upstream handshake, in order
HandshakeOps(r) ==
  << [op |-> "write", pkt |-> AuthMethodList],
     [op |-> "read", pkt |-> ReadOf("AuthMethodSelect")],
     [op |-> "write", pkt |-> [kind |-> "RequestPacket", command |-> "kConnect",
                               body |-> TargetOf(r)]],
     [op |-> "read", pkt |-> ReadOf("ResponseHeader")],
     [op |-> "read", pkt |-> ReadOf("Address")] >>

\* C5: the operations issued on a request's transport are a prefix of
\* write AuthMethodList{NoAuth}, read AuthMethodSelect, write
\* RequestPacket{Connect, target}, read ResponsePacket (header, then body);
\* each is issued only when the one before completed without error (and the
\* request only when NoAuth was selected), and a transport is delivered only
\* after the whole response was read with REP = Success.
C5_HandshakeOrder ==
  \A r \in Reqs :
    /\ Len(io[r]) <= Len(HandshakeOps(r))
    /\ \A i \in DOMAIN io[r] :
         /\ io[r][i].op = HandshakeOps(r)[i].op
         /\ io[r][i].pkt = HandshakeOps(r)[i].pkt
         /\ i < Len(io[r]) => io[r][i].res = "ok"
    /\ Len(io[r]) >= 3 => selected[r] = "kNoAuth"
    /\ \A i \in DOMAIN cb[r] :
         Delivered(cb[r][i]) =>
           /\ Len(io[r]) = Len(HandshakeOps(r))
           /\ io[r][Len(io[r])].res = "ok"
           /\ hdr[r] = ResponseCode.kSuccess

C5_Witness ==
  \E r \in Reqs :
    /\ cb[r] # <<>>
    /\ Delivered(cb[r][1])
    /\ Len(io[r]) = 5

\* C6: when the upstream selects a method other than NoAuth, no
\* RequestPacket is written, the transport is closed and the request callback
\* gets an error and no transport.
C6_UnsupportedMethodFails ==
  \A r \in Reqs :
    (pc[r] = "done" /\ selected[r] \notin {"", "kNoAuth"}) =>
      /\ Len(io[r]) = 2
      /\ sock[r].state = "closed"
      /\ Len(cb[r]) = 1
      /\ cb[r][1].transport = NullTransport
      /\ IsError(cb[r][1].ec)

\* C7: when the upstream answers with a response code R other than Success,
\* the request callback gets the error code of the SOCKS category whose value
\* is R, and a null transport, and the transport to the upstream is closed.
C7_ResponseCodePassThrough ==
  \A r \in Reqs :
    (pc[r] = "done" /\ Len(io[r]) = 5 /\ io[r][5].res = "ok"
       /\ hdr[r] # ResponseCode.kSuccess) =>
      /\ cb[r] = << [ec |-> [cat |-> "socks", val |-> hdr[r]],
                     transport |-> NullTransport, held |-> FALSE] >>
      /\ sock[r].state = "closed"
      /\ sock[r].closeCalls = 1

C7_Witness ==
  \E r \in Reqs :
    /\ pc[r] = "done"
    /\ hdr[r] = ResponseCode.kConnectionRefused
    /\ Len(cb[r]) = 1
    /\ cb[r][1].ec.val = ResponseCode.kConnectionRefused

\* C8: the transport a successful request delivers reports as its local
\* address the bound address read from the upstream's ResponsePacket, and
\* wraps the request's own transport to the upstream: what its holder reads,
\* writes and closes is that transport.
C8_BoundAddressOfUpstream ==
  \A r \in Reqs :
    /\ \A i \in DOMAIN cb[r] :
         Delivered(cb[r][i]) =>
           /\ GetLocalAddress(cb[r][i].transport) = body[r]
           /\ body[r] \in Addrs
           /\ cb[r][i].transport.kind = "wrapped"
           /\ cb[r][i].transport.inner = r
    /\ sock[r].relayed # {} =>
         \E i \in DOMAIN cb[r] :
           Delivered(cb[r][i]) /\ cb[r][i].transport.inner = r

\* a delivered transport whose reported address is not the one of the socket
\* to the upstream, and which was written to and closed
C8_Witness ==
  \E r \in Reqs :
    /\ cb[r] # <<>>
    /\ Delivered(cb[r][1])
    /\ GetLocalAddress(cb[r][1].transport) # SocketLocalAddress(r)
    /\ sock[r].relayed = {"read", "write"}
    /\ sock[r].state = "closed"

\* C9: after any failing step of the handshake the transport is closed, no
\* operation is outstanding or issued after the failing one, the request
\* callback got the error once, with no transport, and nothing is retried.
C9_FailingStepClosesAndReports ==
  \A r \in Reqs :
    FailingStepDone(r) =>
      /\ sock[r].state = "closed"
      /\ \A i \in DOMAIN io[r] : io[r][i].res # "pending"
      /\ Len(io[r]) <= Len(HandshakeOps(r))
      /\ Len(cb[r]) = 1
      /\ cb[r][1].transport = NullTransport
      /\ IsError(cb[r][1].ec)
\* ====================================================================
\* Properties of the accept loop (specification SpecAccept)
\* ====================================================================
\* C3: while the TLS handshake of an accepted connection is pending, the TLS
\* factory has an accept outstanding on the listener.
C3_AcceptOutstandingDuringHandshake ==
  acceptKind = "ssl" =>
    \A k \in DOMAIN rounds :
      rounds[k].handshake = "pending" =>
        \E j \in DOMAIN rounds : rounds[j].accept = "pending"

\* C4, as stated: every invocation of the TLS factory's accept callback is
\* preceded by the completion of a handshake, with the transport when the
\* handshake succeeded and a null transport and the error when it failed.
C4_CallbackOnlyAfterHandshake ==
  acceptKind = "ssl" =>
    \A i \in DOMAIN acceptCb :
      LET c == acceptCb[i]
          rd == rounds[c.round]
      IN /\ rd.handshake \in {"ok", "error"}
         /\ rd.handshake = "ok" =>
              ~IsError(c.ec) /\ c.transport = AcceptedTransport(c.round)
         /\ rd.handshake = "error" =>
              IsError(c.ec) /\ c.transport = NullTransport

\* C4, amended: the accept callback is invoked at most once for each accept;
\* for an accepted connection only after that connection's handshake has
\* completed, with the transport when it succeeded and a null transport and
\* the error when it failed; and when the accept itself failed, with the
\* accept's error and a null transport, no handshake having been started.
C4_CallbackAfterHandshakeOrAcceptError ==
  acceptKind = "ssl" =>
    /\ \A i, j \in DOMAIN acceptCb :
         acceptCb[i].round = acceptCb[j].round => i = j
    /\ \A i \in DOMAIN acceptCb :
         LET c == acceptCb[i]
             rd == rounds[c.round]
         IN IF rd.accept = "ok"
              THEN /\ rd.handshake \in {"ok", "error"}
                   /\ rd.handshake = "ok" =>
                        ~IsError(c.ec) /\ c.transport = AcceptedTransport(c.round)
                   /\ rd.handshake = "error" =>
                        c.ec = HandshakeFailed /\ c.transport = NullTransport
              ELSE /\ rd.accept = "error"
                   /\ rd.handshake = "none"
                   /\ c.ec = BadDescriptor
                   /\ c.transport = NullTransport

\* the callback was invoked for a connection whose handshake failed and for
\* one whose handshake succeeded, while a third handshake is still pending
C4_Witness ==
  /\ acceptKind = "ssl"
  /\ \E i, j \in DOMAIN acceptCb :
       /\ rounds[acceptCb[i].round].handshake = "error"
       /\ rounds[acceptCb[j].round].handshake = "ok"
  /\ \E k \in DOMAIN rounds : rounds[k].handshake = "pending"

\* ====================================================================
\* Properties of DirectTcpUpstreamFactory (specification SpecDirect)
\* ====================================================================
\* C10: a request for an address whose type is none of IPv4, IPv6 and
\* DomainName invokes the callback with the AddressTypeNotSupported error
\* and no transport, and issues neither a resolve nor a connect.
C10_UnknownTypeReported ==
  \A r \in Reqs :
    (dpc[r] # "idle" /\ daddr[r].type \notin {kIPv4, kIPv6, kDomainName}) =>
      /\ dops[r] = <<>>
      /\ dcb[r] = << [ec |-> make_error_code(ResponseCode.kAddressTypeNotSupported),
                      transport |-> NullTransport] >>

\* C11: for a DomainName target the factory resolves first and connects only
\* after the resolution succeeded, to the first result; when the resolution
\* fails with an error, the callback receives exactly that error and a null
\* transport and no connect is attempted.
C11_ResolveThenConnectFirst ==
  \A r \in Reqs :
    (dpc[r] # "idle" /\ daddr[r].type = kDomainName) =>
      /\ dops[r][1].op = "resolve"
      /\ dops[r][1].arg = [host |-> daddr[r].host, port |-> daddr[r].port]
      /\ \A i \in DOMAIN dops[r] : i > 1 =>
            /\ i = 2
            /\ dops[r][i].op = "connect"
            /\ dops[r][1].out.done
            /\ ~IsError(dops[r][1].out.ec)
            /\ dops[r][i].arg = dops[r][1].out.results[1]
      /\ (dops[r][1].out.done /\ IsError(dops[r][1].out.ec)) =>
            /\ Len(dops[r]) = 1
            /\ dcb[r] = << [ec |-> dops[r][1].out.ec, transport |-> NullTransport] >>

\* one DomainName request failed to resolve and got the resolver's error,
\* another resolved to two results and connected
C11_Witness ==
  \E r1, r2 \in Reqs :
    /\ daddr[r1].type = kDomainName /\ daddr[r2].type = kDomainName
    /\ Len(dops[r1]) = 1 /\ dops[r1][1].out.done
    /\ dops[r1][1].out.ec = TryAgain
    /\ Len(dcb[r1]) = 1
    /\ Len(dops[r2]) = 2 /\ Len(dops[r2][1].out.results) = 2
    /\ Len(dcb[r2]) = 1 /\ dcb[r2][1].transport # NullTransport

\* ====================================================================
\* More properties of the accept loop (specification SpecAccept)
\* ====================================================================
AcceptsOutstanding == {k \in DOMAIN rounds : rounds[k].accept = "pending"}
HandshakesOutstanding == {k \in DOMAIN rounds : rounds[k].handshake = "pending"}
\* the invocations of the accept callback that returned true
ReturnedTrue == {i \in DOMAIN acceptCb : acceptCb[i].ret}
\* the invocation was made for an accept that itself failed
ForFailedAccept(i) == rounds[acceptCb[i].round].accept = "error"

C13_AcceptErrorTerminatesAccepting ==
  \A k \in DOMAIN rounds :
    rounds[k].accept = "error" => k = Len(rounds)

\* C13 for the TLS factory alone
C13_TlsAcceptErrorTerminatesAccepting ==
  acceptKind = "ssl" => C13_AcceptErrorTerminatesAccepting

\* ====================================================================
\* Properties of one transport (specification SpecTransport)
\* ====================================================================
\* the invocations of a close callback made for StartClose call n
CallbacksOf(n) == {i \in DOMAIN closeCb : closeCb[i].call = n}

\* C14: TcpTransportImpl::StartClose shuts down and then closes the socket;
\* the socket ends up closed whether or not the shutdown failed, and the
\* close callback is invoked exactly once, with the shutdown's error when
\* the shutdown failed.
C14_TcpCloseAlwaysClosesAndReportsOnce ==
  tKind = "tcp" =>
    \A n \in DOMAIN closeLog :
      /\ socket_ = "closed"
      /\ Cardinality(CallbacksOf(n)) = 1
      /\ IsError(closeLog[n].shutdown.ec) =>
           \A i \in CallbacksOf(n) : closeCb[i].ec = closeLog[n].shutdown.ec

\* C15: a second StartClose on a transport that is already closed leaves it
\* closed and reports no error to its close callback.
C15_SecondCloseReportsNoError ==
  \A n \in DOMAIN closeLog :
    (n > 1 /\ closeLog[n].shutdown.done) =>
      /\ tKind = "tcp" => socket_ = "closed"
      /\ \A i \in CallbacksOf(n) : ~IsError(closeCb[i].ec)

C17_TlsShutdownBeforeSocketDropped ==
  tKind = "ssl" =>
    /\ handlers # <<>> => ~destroyed /\ socket_ = "open"
    /\ socket_ = "closed" =>
         /\ destroyed
         /\ \A n \in DOMAIN closeLog : closeLog[n].shutdown.done
    /\ (owners = 0 /\ handlers = <<>>) => destroyed /\ socket_ = "closed"

\* every owner has released the transport while its shutdown is pending
C17_Witness ==
  /\ tKind = "ssl"
  /\ owners = 0
  /\ handlers # <<>>
  /\ \E n \in DOMAIN closeLog : closeLog[n].shutdown.done /\ closeLog[n].shutdown.ec = ShutdownFailed

\* ====================================================================
\* Properties of SslTransportFactoryBuilder (specification SpecBuilder)
\* ====================================================================
\* C18: over any sequence of Build calls on one builder the first returns a
\* factory and every later one returns null; the used flag is set from the
\* first Build on and never returns to false; at most one factory owns the
\* builder's TLS context.
C18_BuilderIsSingleShot ==
  /\ used_ = (built # <<>>)
  /\ \A i \in DOMAIN built :
       IF i = 1
         THEN built[i].kind = "ssl" /\ built[i].ctx.method = "sslv23"
         ELSE built[i] = NullFactory
  /\ used_ => ssl_ctx_ = MovedContext

\* three Build calls on a builder that had a certificate and a key loaded
C18_Witness ==
  /\ Len(built) = 3
  /\ {"cert", "private_key"} \subseteq built[1].ctx.loaded

\* ====================================================================
\* More properties of SocksTcpUpstreamFactory (specification Spec)
\* ====================================================================
\* C19: upstream_endpoint_init_mtx_ is held only during the resolution:
\* StartRequest never invokes the request callback and never performs the
\* connect or the TLS handshake to the upstream while holding it.
C19_MutexHeldOnlyDuringResolution ==
  \A r \in Reqs :
    /\ \A i \in DOMAIN cb[r] : ~cb[r][i].held
    /\ pc[r] = "tryconnect" => upstream_endpoint_init_mtx_ # r

\* ====================================================================
\* Properties of the packet readers (specification SpecPacket)
\* ====================================================================
RECURSIVE BytesGot(_)
\* the bytes the reads in rs took from the stream
BytesGot(rs) == IF rs = <<>> THEN 0 ELSE Len(Head(rs).got) + BytesGot(Tail(rs))

\* the first byte the reader got is not the SOCKS version
BadFirstByte ==
  /\ reads # <<>>
  /\ reads[1].done
  /\ reads[1].got # <<>>
  /\ reads[1].got[1] # 5

\* C20: reading a packet whose first byte is not 0x05 yields an error and
\* consumes no byte of the stream beyond that first byte.
C20_BadVersionStopsAtFirstByte ==
  BadFirstByte =>
    /\ BytesGot(reads) <= 1
    /\ \A i \in DOMAIN created : IsError(created[i].ec)

\* ====================================================================
\* More properties of one transport (specification SpecTransport)
\* ====================================================================
\* C21: no failing socket operation lets an exception escape a handler; in
\* particular none leaves StartClose after a failed shutdown or close.
C21_NoExceptionEscapes == escaped = 0

\* ====================================================================
\* More properties of the packet readers (specification SpecPacket)
\* ====================================================================
\* the packet being read is a header-and-body packet, and its header read
\* has completed
HeaderRead ==
  /\ \/ ppc.at = "body"
     \/ ppc.at = "done" /\ "header" \in DOMAIN created[1].packet
  /\ reads[1].done

\* C30: PacketWithHeader::StartCreateFrom reads the header first; when the
\* header read fails or the header does not validate (its version is not
\* 0x05) no body read is issued and the callback receives an error; the body
\* is read only after a valid header; on any error the packet delivered is a
\* default-constructed one.
C30_BadHeaderShortCircuits ==
  HeaderRead =>
    /\ (IsError(reads[1].ec) \/ reads[1].got[1] # 5) =>
         /\ Len(reads) = 1
         /\ ppc.at = "done"
         /\ IsError(created[1].ec)
    /\ \A i \in DOMAIN created :
         IsError(created[i].ec) =>
           created[i].packet = [header |-> DefaultPacket, body |-> DefaultPacket]

\* the request whose TryConnect initialised upstream_endpoint_
Initialiser(r) ==
  \E i \in DOMAIN resolutions :
    resolutions[i].req = r /\ resolutions[i].outcome = "initialised"

ConnectFailed(r) ==
  \E i \in DOMAIN cb[r] : cb[r][i].ec \in {ConnRefused, HandshakeFailed}

C29_Requests ==
  \A r \in Reqs :
    IF Initialiser(r)
      THEN \* the transport of TryConnect, and no StartConnect
           /\ sock[r].connects = 1
           /\ pc[r] \notin {"connect", "connecting", "handshaking"}
           /\ io[r] # <<>>
           /\ is_upstream_endpoint_init_
      ELSE /\ is_upstream_endpoint_init_ => ~Resolving(r)
           /\ pc[r] = "connect" => is_upstream_endpoint_init_
           /\ sock[r].connects <= 1
           /\ sock[r].connects = 1 =>
                /\ is_upstream_endpoint_init_
                /\ sock[r].endpoint = upstream_endpoint_
                /\ \A i \in DOMAIN resolutions : resolutions[i].req # r
                      \/ Failed(resolutions[i].outcome)
           /\ io[r] # <<>> =>
                /\ sock[r].connects = 1
                /\ sock[r].state \in {"open", "closed"}
                /\ ~ConnectFailed(r)

\* C29: once a request has initialised the upstream endpoint the flag stays
\* true and upstream_endpoint_ never changes; every other request that gets
\* as far as connecting does not resolve, opens exactly one connection, to
\* the remembered endpoint, and starts the SOCKS handshake only after that
\* connect succeeded; the initialising request runs its handshake on the
\* transport of TryConnect and opens no second connection.
C29_RememberedEndpointReused ==
  /\ C29_Requests
  /\ \A i \in DOMAIN resolutions :
       resolutions[i].outcome = "initialised" =>
         /\ is_upstream_endpoint_init_
         /\ upstream_endpoint_ = resolutions[i].endpoint
         /\ i = Len(resolutions)

\* one request initialised the endpoint, another one connected to the
\* remembered endpoint and has started its handshake
C29_Witness ==
  \E r1, r2 \in Reqs :
    /\ Initialiser(r1)
    /\ ~Initialiser(r2)
    /\ sock[r2].connects = 1
    /\ io[r2] # <<>>
    /\ io[r1] # <<>>

\* ====================================================================
\* Properties of Address and the packets (specification SpecCodec)
\* ====================================================================
\* the length invariant of the data model
ValidAddress(a) ==
  \/ a.type = kIPv4 /\ Len(a.host) = IPv4Size
  \/ a.type = kIPv6 /\ Len(a.host) = IPv6Size
  \/ a.type = kDomainName /\ Len(a.host) \in 1..MaxDomainLength

\* the packet was built by the program, written whole and read to the end
ReadBack == cpc.at = "done" /\ cpc.by # "peer"

\* C26: a RequestPacket or ResponsePacket with a valid header and body,
\* serialized as header bytes followed by body bytes and parsed from a
\* transport that yields those bytes, gives a packet equal to the original,
\* and the parse consumes exactly the serialized bytes.
C26_PacketRoundTrip ==
  /\ cpc.at # "new" /\ cpc.cls # "Address" /\ wire.sent # <<>> /\ cpc.by # "peer" =>
       wire.sent = HeaderToString(original.header) \o AddressToString(original.body)
  /\ (ReadBack /\ cpc.cls # "Address" /\ ValidAddress(original.body)) =>
       /\ decoded.done
       /\ ~IsError(decoded.ec)
       /\ decoded.packet = original
       /\ wire.rest = wire.extra

\* a request and a response for a domain name of the longest length were
\* read back, with bytes left on the transport
C26_Witness ==
  /\ ReadBack
  /\ cpc.cls = "ResponsePacket"
  /\ original.body.type = kDomainName
  /\ Len(original.body.host) = MaxDomainLength
  /\ wire.extra # <<>>
  /\ decoded.packet = original

\* the bytes of the Address a peer sent
AddressBytes ==
  IF cpc.cls = "Address" THEN wire.sent
  ELSE SubSeq(wire.sent, HeaderSize + 1, Len(wire.sent))

\* C27: an Address of type IPv4, IPv6 or DomainName of 1 to 255 bytes that
\* is encoded and decoded comes back equal; decoding a domain of length 0
\* fails, and decoding an unknown ATYP fails with AddressTypeNotSupported.
C27_AddressRoundTrip ==
  /\ (ReadBack /\ ValidAddress(original.body)) =>
       /\ ~IsError(decoded.ec)
       /\ decoded.packet.body = original.body
  /\ (cpc.at = "done" /\ AddressBytes # <<>>) =>
       /\ AddressBytes[1] \notin {kIPv4, kDomainName, kIPv6} =>
            decoded.ec = make_error_code(ResponseCode.kAddressTypeNotSupported)
       /\ (Len(AddressBytes) > 1 /\ AddressBytes[1] = kDomainName /\ AddressBytes[2] = 0) =>
            /\ IsError(decoded.ec)
            /\ decoded.packet = DefaultOf(cpc.cls)

\* a domain name of 255 bytes was read back
C27_Witness ==
  /\ ReadBack
  /\ cpc.cls = "Address"
  /\ original.body.type = kDomainName
  /\ Len(original.body.host) = MaxDomainLength
  /\ decoded.packet.body = original.body

\* C28: an Address made by default construction or by FromAsioEndpoint has
\* a host of 4 bytes when its type is IPv4 and of 16 bytes when it is IPv6;
\* from a v4 or v6 endpoint it has the endpoint's family and port, and from
\* any other endpoint the invalid type 0xff.
C28_HostLengthMatchesType ==
  (cpc.at # "new" /\ cpc.by \in {"default", "FromAsioEndpoint"}) =>
    LET a == original.body IN
    /\ a.type = kIPv4 => Len(a.host) = 4
    /\ a.type = kIPv6 => Len(a.host) = 16
    /\ cpc.by = "default" => a.type = kIPv4 /\ a.port = 0
    /\ asioEndpoint.kind = "v4" =>
         a.type = kIPv4 /\ a.port = asioEndpoint.port /\ a.host = asioEndpoint.host
    /\ asioEndpoint.kind = "v6" =>
         a.type = kIPv6 /\ a.port = asioEndpoint.port /\ a.host = asioEndpoint.host
    /\ asioEndpoint.kind = "other" => a.type = kInvalidAddressType

\* an endpoint of neither family was converted
C28_Witness ==
  /\ cpc.by = "FromAsioEndpoint"
  /\ asioEndpoint.kind = "other"
  /\ original.body.type = kInvalidAddressType
  /\ cpc.at = "made"

\* ====================================================================
\* Properties of the relay (specification SpecRelay)
\* ====================================================================
\* C22: during the relay every transport has at most one read and at most
\* one write outstanding, and a direction has its read or the write of the
\* bytes it read outstanding, never both.
C22_OneReadOneWritePerTransport ==
  /\ \A t \in Transports : inflight[t].reads <= 1 /\ inflight[t].writes <= 1
  /\ \A d \in Directions :
       /\ inflight[Src(d)].reads + inflight[Dst(d)].writes <= 1
       /\ inflight[Src(d)].reads = (IF dirs[d].at = "read" THEN 1 ELSE 0)
       /\ inflight[Dst(d)].writes = (IF dirs[d].at = "write" THEN 1 ELSE 0)

\* one direction is writing what it read while the other one is reading
C22_Witness ==
  /\ dirs["d2u"].at = "write"
  /\ dirs["d2u"].chunks = 1
  /\ dirs["u2d"].at = "read"
  /\ inflight["U"] = [reads |-> 1, writes |-> 1]

\* C23: once a direction has terminated both transports are closed, and the
\* relay is complete and the transports released only when both directions
\* have exited and nothing is in flight.
C23_FirstExitClosesBoth ==
  /\ (\E d \in Directions : dirs[d].at = "exited") =>
       \A t \in Transports : rsock[t] = "closed"
  /\ (relay.complete \/ relay.released) =>
       /\ \A d \in Directions : dirs[d].at = "exited"
       /\ \A t \in Transports : inflight[t] = NoOps

\* ====================================================================
\* Properties of the SOCKS5 server (specification SpecServer)
\* ====================================================================
Selects(i) == replies[i].kind = "AuthMethodSelect"

\* C24: the server selects NoAuth when NoAuth is anywhere in the
\* AuthMethodList and NoAcceptable otherwise; it reads the RequestPacket only
\* after it selected NoAuth; a greeting of another version is closed
\* without a response.
C24_SelectsNoAuthWhenOffered ==
  /\ \A i \in DOMAIN replies :
       Selects(i) =>
         /\ i = 1
         /\ greeting.ver = 5
         /\ replies[i].code =
              (IF kNoAuth \in { greeting.methods[k] : k \in DOMAIN greeting.methods }
                 THEN kNoAuth ELSE kNoAcceptable)
  /\ srv.requestReads <= 1
  /\ srv.requestReads = 1 =>
       /\ replies # <<>>
       /\ Selects(1)
       /\ replies[1].code = kNoAuth
  /\ (spc \notin {"S0", "S1"} /\ greeting.ver \notin {0, 5}) =>
       /\ replies = <<>>
       /\ spc = "closed"
       /\ srv.closes = 1

\* NoAuth was the second of two methods and the request is being read
C24_Witness ==
  /\ spc = "S2"
  /\ Len(greeting.methods) = 2
  /\ greeting.methods[1] # kNoAuth
  /\ greeting.methods[2] = kNoAuth
  /\ srv.requestReads = 1

\* C25: a request whose command is not Connect never reaches the upstream
\* factory; it is answered with CommandNotSupported and the bound address
\* 0.0.0.0:0, the transport is closed and nothing is relayed.
C25_OnlyConnectReachesUpstream ==
  (spc \notin {"S0", "S1", "S2", "S3"} /\ sreq.cmd \notin {0, kConnect}) =>
    /\ srv.upstreamCalls = 0
    /\ ~srv.relaying
    /\ spc = "closed"
    /\ srv.closes = 1
    /\ Len(replies) = 2
    /\ replies[2] = Reply("ResponsePacket", kCommandNotSupported,
                          Address(kIPv4, <<0, 0, 0, 0>>, 0))

\* a Bind request was answered
C25_Witness ==
  /\ spc = "closed"
  /\ sreq.cmd = 2
  /\ Len(replies) = 2
  /\ replies[2].code = kCommandNotSupported

\* ====================================================================
\* More properties of DirectTcpUpstreamFactory (specification SpecDirect)
\* ====================================================================
\* C31: for an IPv4 or IPv6 target the factory resolves nothing and calls
\* StartConnect exactly once, with the endpoint made of the target's host
\* bytes and port; the request callback is invoked only by the connect, with
\* the connect's error code and transport.
C31_ConnectsStraightToTarget ==
  \A r \in Reqs :
    (dpc[r] # "idle" /\ daddr[r].type \in {kIPv4, kIPv6}) =>
      /\ Len(dops[r]) = 1
      /\ dops[r][1].op = "connect"
      /\ dops[r][1].arg.addr = daddr[r].host
      /\ dops[r][1].arg.port = daddr[r].port
      /\ dcb[r] = IF dops[r][1].out.done
                    THEN << [ec |-> dops[r][1].out.ec,
                             transport |-> dops[r][1].out.transport] >>
                    ELSE <<>>

\* an IPv4 request connected and an IPv6 request was refused
C31_Witness ==
  \E r1, r2 \in Reqs :
    /\ daddr[r1].type = kIPv4 /\ daddr[r2].type = kIPv6
    /\ dpc[r1] = "done" /\ dpc[r2] = "done"
    /\ dcb[r1][1].transport # NullTransport
    /\ dcb[r2][1].ec = ConnRefused

\* ====================================================================
\* The contract of the transport factories and of the upstream requests
\* (specifications Spec and SpecAccept)
\* ====================================================================
\* C32: every transport the TCP factory hands out for an established
\* connection has TCP_NODELAY set on its own socket before it is handed out.
C32_NoDelayBeforeHandedOut ==
  \A r \in Reqs :
    (factoryKind = "tcp" /\ sock[r].state = "open") => sock[r].no_delay

\* the connect callbacks of request r that reported a failed connect
ConnectFailures(r) ==
  {i \in DOMAIN cb[r] : cb[r][i].ec \in {ConnRefused, HandshakeFailed}}

\* C33: StartConnect invokes its connect callback exactly once per call;
\* when the TCP dial of a TLS connect fails, no TLS handshake is started and
\* the callback is not invoked a second time.
C33_ConnectCallbackOnce ==
  \A r \in Reqs :
    /\ pc[r] = "handshaking" => sock[r].state = "connected"
    /\ Cardinality(ConnectFailures(r)) <= 1

\* C34: the request callback receives a null transport exactly when it
\* receives a non-empty error code.
C34_NullTransportIffError ==
  \A r \in Reqs : \A i \in DOMAIN cb[r] :
    (cb[r][i].transport = NullTransport) <=> IsError(cb[r][i].ec)

\* C35: in the accept callback a non-empty error code always comes with a
\* null transport, with the TCP factory as with the TLS factory.
C35_ErrorComesWithNullTransport ==
  \A i \in DOMAIN acceptCb :
    IsError(acceptCb[i].ec) => acceptCb[i].transport = NullTransport

====
